---- MODULE Spec2Model ----
(***************************************************************************)
(* Model of the partner-copy signing proxy: ProxyController.proxy and      *)
(* ProxyService.proxyRequest handling one inbound HTTP request (Spec,      *)
(* LiveSpec), the same with the clock advancing during the awaits          *)
(* (TimedSpec), several requests in flight together (ConcSpec), and the    *)
(* receive-window resolution, the signing of proxyRequest and the          *)
(* versioning loader of main.config.ts applied to inputs of their own      *)
(* (RecvWindowSpec, SignatureSpec, LoaderSpec). The upstream is modelled   *)
(* at the call of axiosInstance.request.                                   *)
(*                                                                         *)
(* Strings that the code inspects character by character (request paths,   *)
(* version tokens, header values) are sequences of one-character strings.  *)
(* The literals the code compares against as a whole ("heartbeat",         *)
(* "health-check", ...) are single symbols of the alphabet: each stands    *)
(* for that run of letters, none of which is '/', 'v', 'V' or a digit.     *)
(***************************************************************************)
EXTENDS Integers, Sequences, FiniteSets, TLC

\* ------------------------------------------------------------------ bounds
\* Longest request path, in symbols, the leading '/' included.
MaxPathLen == 4
\* Latest reading of the proxy's clock.
MaxClock == 1

\* --------------------------------------------------------------- constants
RECV_WINDOW_MAX_SIZE == 3600000
RECV_WINDOW_DEFAULT == 5000

TOKEN_HEADER == "X-ASTRABIT-API-KEY"
TOKEN_USER_HEADER == "X-ASTRABIT-USER-ID"
SIGNATURE_HEADER == "X-ASTRABIT-SIGNATURE"
TIMESTAMP_HEADER == "X-ASTRABIT-TIMESTAMP"
RECV_WINDOW_HEADER == "X-ASTRABIT-RECV-WINDOW"

\* The names under which Express files inbound headers: lower case.
lowerCaseName(name) ==
    CASE name = TOKEN_HEADER -> "x-astrabit-api-key"
      [] name = TOKEN_USER_HEADER -> "x-astrabit-user-id"
      [] name = SIGNATURE_HEADER -> "x-astrabit-signature"
      [] name = TIMESTAMP_HEADER -> "x-astrabit-timestamp"
      [] name = RECV_WINDOW_HEADER -> "x-astrabit-recv-window"
      [] OTHER -> name

\* Values main.config.ts hands to the ConfigService (test fixture values).
copyGatewayUrl == "http://localhost:3360"
astrabitApiKey == "test-api-key"
astrabitApiSecret == "test-api-secret"

\* ----------------------------------------------------------------- strings
DigitSeq == <<"0", "1", "2", "3", "4", "5", "6", "7", "8", "9">>
DigitChars == {DigitSeq[i] : i \in 1..10}
IsDigit(c) == c \in DigitChars
DigitVal(c) == (CHOOSE i \in 1..10 : DigitSeq[i] = c) - 1

\* Symbols request paths are built from.
PathAlphabet ==
    {"/", "v", "V", "1", "2", "a",
     "heartbeat", "health-check", "api-json", "api-yaml", "_swagger"}

SeqsUpTo(S, n) == UNION {[1..k -> S] : k \in 0..n}

\* req.path of Express always starts with '/'.
Paths == {<<"/">> \o s : s \in SeqsUpTo(PathAlphabet, MaxPathLen - 1)}

\* String.prototype.startsWith
startsWith(s, prefix) ==
    /\ Len(s) >= Len(prefix)
    /\ SubSeq(s, 1, Len(prefix)) = prefix

\* String.prototype.toLowerCase, symbol by symbol.
LowerChar(c) ==
    CASE c = "V" -> "v"
      [] c = "C" -> "c"
      [] c = "K" -> "k"
      [] c = "T" -> "t"
      [] c = "U" -> "u"
      [] c = "PGRADE" -> "pgrade"
      [] OTHER -> c
toLowerCase(s) == [i \in 1..Len(s) |-> LowerChar(s[i])]

\* ------------------------------------------------------- version resolver
\* Last index of the run of digits that starts at index i (i - 1 if none).
RECURSIVE DigitRunEnd(_, _)
DigitRunEnd(s, i) ==
    IF i <= Len(s) /\ IsDigit(s[i]) THEN DigitRunEnd(s, i + 1) ELSE i - 1

NoMatch == [matched |-> FALSE, version |-> <<>>, rest |-> <<>>]

\* Mutant: the regular expression with v[0-9]* in place of v[0-9]+.
VersionMatchDigitsOptional(path) ==
    LET s == IF Len(path) >= 1 /\ path[1] = "/" THEN 2 ELSE 1
        e == DigitRunEnd(path, s + 1)
    IN  IF /\ s <= Len(path)
           /\ path[s] = "v"
           /\ (e = Len(path) \/ path[e + 1] = "/")
        THEN [matched |-> TRUE,
              version |-> SubSeq(path, s, e),
              rest |-> SubSeq(path, e + 1, Len(path))]
        ELSE NoMatch

\* path.match(/^\/?(v[0-9]+)(\/.*)?$/): group 1 is the version token, group 2
\* the remainder ('' when the group did not take part). No i flag: 'V' does
\* not match 'v'. No symbol of the alphabet is a line terminator, so '.'
\* matches every symbol.
VersionMatch(path) ==
    LET s == IF Len(path) >= 1 /\ path[1] = "/" THEN 2 ELSE 1
        e == DigitRunEnd(path, s + 1)
    IN  IF /\ s <= Len(path)
           /\ path[s] = "v"
           /\ e >= s + 1
           /\ (e = Len(path) \/ path[e + 1] = "/")
        THEN [matched |-> TRUE,
              version |-> SubSeq(path, s, e),
              rest |-> SubSeq(path, e + 1, Len(path))]
        ELSE NoMatch

\* Mutant: membership test that accepts every token.
isSupportedVersionAny(version, supportedVersions) == version # <<>>

isSupportedVersion(version, supportedVersions) ==
    IF version = <<>>
    THEN FALSE
    ELSE \E i \in 1..Len(supportedVersions) : supportedVersions[i] = version

\* Mutant: the versions as configured, without the leading slash.
formatSupportedVersionsBare(supported) == supported

formatSupportedVersions(supported) ==
    [i \in 1..Len(supported) |-> <<"/">> \o supported[i]]

\* Mutant: an exclusion test that compares every path for equality.
isExcludedPathExact(path) ==
    \/ path = <<"/", "heartbeat">>
    \/ path = <<"/", "health-check">>
    \/ path = <<"/">>
    \/ path = <<"/", "api-json">>
    \/ path = <<"/", "api-yaml">>
    \/ path = <<"/", "_swagger">>

\* The conditions of the controller's exclusion test, in source order.
isExcludedPath(path) ==
    \/ path = <<"/", "heartbeat">>
    \/ startsWith(path, <<"/", "health-check">>)
    \/ path = <<"/">>
    \/ startsWith(path, <<"/", "api-json">>)
    \/ startsWith(path, <<"/", "api-yaml">>)
    \/ startsWith(path, <<"/", "_swagger">>)

\* ------------------------------------------------------------ configuration
\* process.env as main.config.ts reads it. API_SUPPORTED_VERSIONS is the
\* value already split at ','; a variable that is not set, or set to the
\* empty string (both falsy), is the empty sequence. API_GATEWAY_VERSION_MAP
\* is unset, malformed (JSON.parse throws), the JSON text null, or the
\* entries (key and value) of the parsed value; a value is a JSON string or a
\* JSON number.
MapUnset == [kind |-> "unset", entries |-> <<>>]
MapMalformed == [kind |-> "malformed", entries |-> <<>>]
MapNull == [kind |-> "null", entries |-> <<>>]
MapJson(entries) == [kind |-> "json", entries |-> entries]
JsonString(text) == [type |-> "string", text |-> text]
JsonNumber(text) == [type |-> "number", text |-> text]

\* String.prototype.trim on the symbols used here.
RECURSIVE TrimLeft(_)
TrimLeft(s) == IF s # <<>> /\ Head(s) = " " THEN TrimLeft(Tail(s)) ELSE s
RECURSIVE TrimRight(_)
TrimRight(s) ==
    IF s # <<>> /\ s[Len(s)] = " " THEN TrimRight(SubSeq(s, 1, Len(s) - 1)) ELSE s
trim(s) == TrimRight(TrimLeft(s))

\* /^v\d+$/.test(entry)
IsVersionToken(s) ==
    /\ Len(s) >= 2
    /\ s[1] = "v"
    /\ \A i \in 2..Len(s) : IsDigit(s[i])

RECURSIVE FilterVersions(_)
FilterVersions(entries) ==
    IF entries = <<>>
    THEN <<>>
    ELSE LET e == toLowerCase(trim(Head(entries)))
         IN  (IF IsVersionToken(e) THEN <<e>> ELSE <<>>) \o FilterVersions(Tail(entries))

parseSupportedVersions(value) ==
    IF value = <<>> THEN << <<"v", "1">> >> ELSE FilterVersions(value)

SeqRange(s) == {s[i] : i \in 1..Len(s)}

\* Object spread {...defaultMap, ...entries}: the later entry of a key wins.
RECURSIVE MapEntries(_)
MapEntries(pairs) ==
    IF pairs = <<>>
    THEN <<>>
    ELSE LET source == toLowerCase(pairs[Len(pairs)][1])
             target == toLowerCase(pairs[Len(pairs)][2].text)
             before == MapEntries(SubSeq(pairs, 1, Len(pairs) - 1))
         IN  IF IsVersionToken(source) /\ IsVersionToken(target)
             THEN (source :> target) @@ before
             ELSE before

\* What makes the try block throw after JSON.parse succeeded: Object.entries
\* of null, and toLowerCase of a value that is not a string.
ThrowsTypeError(value) ==
    \/ value.kind = "null"
    \/ \E i \in 1..Len(value.entries) : value.entries[i][2].type # "string"

parseGatewayVersionMap(value, supportedVersions) ==
    LET defaultMap == [v \in SeqRange(supportedVersions) |-> v]
    IN  IF value.kind # "json" \/ ThrowsTypeError(value)
        THEN defaultMap
        ELSE MapEntries(value.entries) @@ defaultMap

apiVersioning(env) ==
    LET supportedVersions == parseSupportedVersions(env.API_SUPPORTED_VERSIONS)
        defaultVersion ==
            IF env.API_DEFAULT_VERSION # <<>> THEN env.API_DEFAULT_VERSION
            ELSE IF supportedVersions # <<>> THEN supportedVersions[1]
            ELSE <<"v", "1">>
    IN  [supportedVersions |-> supportedVersions,
         defaultVersion |->
            IF defaultVersion \in SeqRange(supportedVersions)
            THEN defaultVersion
            ELSE <<"v", "1">>,
         gatewayVersionMap |->
            parseGatewayVersionMap(env.API_GATEWAY_VERSION_MAP, supportedVersions)]

\* The environments the service is started in.
Environments ==
    { \* nothing set
      [API_SUPPORTED_VERSIONS |-> <<>>,
       API_DEFAULT_VERSION |-> <<>>,
       API_GATEWAY_VERSION_MAP |-> MapUnset],
      \* API_SUPPORTED_VERSIONS="v1, V2" API_GATEWAY_VERSION_MAP="{oops"
      [API_SUPPORTED_VERSIONS |-> << <<"v", "1">>, <<" ", "V", "2">> >>,
       API_DEFAULT_VERSION |-> <<>>,
       API_GATEWAY_VERSION_MAP |-> MapMalformed],
      \* API_SUPPORTED_VERSIONS="v2,v1,x" API_GATEWAY_VERSION_MAP={"V1":"v2"}
      [API_SUPPORTED_VERSIONS |-> << <<"v", "2">>, <<"v", "1">>, <<"x">> >>,
       API_DEFAULT_VERSION |-> <<>>,
       API_GATEWAY_VERSION_MAP |->
           MapJson(<< << <<"V", "1">>, JsonString(<<"v", "2">>) >> >>)],
      \* API_SUPPORTED_VERSIONS="x,1"
      [API_SUPPORTED_VERSIONS |-> << <<"x">>, <<"1">> >>,
       API_DEFAULT_VERSION |-> <<>>,
       API_GATEWAY_VERSION_MAP |-> MapUnset],
      \* API_SUPPORTED_VERSIONS="v2" API_DEFAULT_VERSION="v9"
      \* API_GATEWAY_VERSION_MAP={"v2":"v12","v9":"v1"}
      [API_SUPPORTED_VERSIONS |-> << <<"v", "2">> >>,
       API_DEFAULT_VERSION |-> <<"v", "9">>,
       API_GATEWAY_VERSION_MAP |->
           MapJson(<< << <<"v", "2">>, JsonString(<<"v", "1", "2">>) >>,
                      << <<"v", "9">>, JsonString(<<"v", "1">>) >> >>)] }

\* -------------------------------------------------------- signature engine
RECURSIVE NatToString(_)
NatToString(n) ==
    IF n < 10
    THEN <<DigitSeq[n + 1]>>
    ELSE NatToString(n \div 10) \o <<DigitSeq[(n % 10) + 1]>>

\* Number.prototype.toString and the ${n} of a template literal.
IntToString(n) == IF n < 0 THEN <<"-">> \o NatToString(0 - n) ELSE NatToString(n)

RECURSIVE DigitsValue(_, _, _, _)
DigitsValue(s, i, e, acc) ==
    IF i > e THEN acc ELSE DigitsValue(s, i + 1, e, acc * 10 + DigitVal(s[i]))

\* parseInt(s, 10): leading white space, an optional sign, then the longest
\* run of digits; NaN when there is none.
parseInt(s) ==
    LET t == TrimLeft(s)
        signed == t # <<>> /\ t[1] \in {"-", "+"}
        first == IF signed THEN 2 ELSE 1
        e == DigitRunEnd(t, first)
    IN  IF e < first
        THEN [nan |-> TRUE, value |-> 0]
        ELSE [nan |-> FALSE,
              value |-> IF signed /\ t[1] = "-"
                        THEN 0 - DigitsValue(t, first, e, 0)
                        ELSE DigitsValue(t, first, e, 0)]

\* Mutant: a receive window held to RECV_WINDOW_MAX_SIZE.
resolveRecvWindowClamped(recvWindowHeader) ==
    IF recvWindowHeader # <<>>
    THEN LET n == parseInt(recvWindowHeader)
         IN  IF n.nan \/ n.value = 0 THEN RECV_WINDOW_DEFAULT
             ELSE IF n.value > RECV_WINDOW_MAX_SIZE THEN RECV_WINDOW_MAX_SIZE
             ELSE n.value
    ELSE RECV_WINDOW_DEFAULT

\* recvWindowHeader ? parseInt(recvWindowHeader, 10) || DEFAULT : DEFAULT.
\* The header value is the empty sequence when absent (or empty); NaN and 0
\* are falsy.
resolveRecvWindow(recvWindowHeader) ==
    IF recvWindowHeader # <<>>
    THEN LET n == parseInt(recvWindowHeader)
         IN  IF n.nan \/ n.value = 0 THEN RECV_WINDOW_DEFAULT ELSE n.value
    ELSE RECV_WINDOW_DEFAULT

\* qs.stringify(query, {encode: false}) of a flat query: key=value joined
\* by '&' in insertion order.
RECURSIVE qsStringify(_)
qsStringify(query) ==
    IF query = <<>>
    THEN <<>>
    ELSE query[1][1] \o <<"=">> \o query[1][2]
         \o (IF Len(query) > 1 THEN <<"&">> \o qsStringify(Tail(query)) ELSE <<>>)

EncodeChar(c) ==
    CASE c = "/" -> "%2F"
      [] c = "?" -> "%3F"
      [] c = "=" -> "%3D"
      [] c = "&" -> "%26"
      [] c = "|" -> "%7C"
      [] c = " " -> "%20"
      [] OTHER -> c

encodeURIComponent(s) == [i \in 1..Len(s) |-> EncodeChar(s[i])]

\* Request bodies: undefined, null, or an object given by its entries.
BodyUndefined == [kind |-> "undefined", entries |-> <<>>]
BodyNull == [kind |-> "null", entries |-> <<>>]
BodyObject(entries) == [kind |-> "object", entries |-> entries]

RECURSIVE JsonMembers(_)
JsonMembers(entries) ==
    IF entries = <<>>
    THEN <<>>
    ELSE <<"\"", entries[1][1], "\"", ":", "\"", entries[1][2], "\"">>
         \o (IF Len(entries) > 1 THEN <<",">> \o JsonMembers(Tail(entries)) ELSE <<>>)

\* JSON.stringify of an object with string values.
JSONstringify(body) == <<"{">> \o JsonMembers(body.entries) \o <<"}">>

\* Mutant: a body string that is empty for a falsy body only.
bodyStringOfFalsyOnly(body) ==
    IF body.kind # "object" THEN <<>> ELSE JSONstringify(body)

\* !body || Object.keys(body).length === 0 ? '' : JSON.stringify(body)
bodyStringOf(body) ==
    IF body.kind # "object" \/ Len(body.entries) = 0
    THEN <<>>
    ELSE JSONstringify(body)

\* crypto.createHmac('sha256', secret).update(message).digest('hex'), kept
\* symbolic: equal digests exactly for equal key and message.
hmacSha256Hex(secret, message) ==
    [alg |-> "hmac-sha256", key |-> secret, message |-> message]

NotSigned == [alg |-> "none", key |-> "", message |-> <<>>]

\* Buffer.from(s): the UTF-8 bytes of s (characters used here are ASCII).
CharCode(c) ==
    CASE c = "1" -> 49 [] c = "2" -> 50 [] c = "3" -> 51
      [] c = "a" -> 97 [] c = "b" -> 98 [] c = "e" -> 101
      [] c = "r" -> 114 [] c = "s" -> 115 [] c = "u" -> 117
utf8Bytes(s) == [i \in 1..Len(s) |-> CharCode(s[i])]

Base64Alphabet ==
    <<"A", "B", "C", "D", "E", "F", "G", "H", "I", "J", "K", "L", "M",
      "N", "O", "P", "Q", "R", "S", "T", "U", "V", "W", "X", "Y", "Z",
      "a", "b", "c", "d", "e", "f", "g", "h", "i", "j", "k", "l", "m",
      "n", "o", "p", "q", "r", "s", "t", "u", "v", "w", "x", "y", "z",
      "0", "1", "2", "3", "4", "5", "6", "7", "8", "9", "+", "/">>

\* Buffer.prototype.toString('base64'): three bytes to four symbols, the
\* last group padded with '='.
RECURSIVE Base64Encode(_)
Base64Encode(bytes) ==
    IF bytes = <<>>
    THEN <<>>
    ELSE IF Len(bytes) = 1
    THEN <<Base64Alphabet[(bytes[1] \div 4) + 1],
           Base64Alphabet[((bytes[1] % 4) * 16) + 1], "=", "=">>
    ELSE IF Len(bytes) = 2
    THEN <<Base64Alphabet[(bytes[1] \div 4) + 1],
           Base64Alphabet[((bytes[1] % 4) * 16) + (bytes[2] \div 16) + 1],
           Base64Alphabet[((bytes[2] % 16) * 4) + 1], "=">>
    ELSE <<Base64Alphabet[(bytes[1] \div 4) + 1],
           Base64Alphabet[((bytes[1] % 4) * 16) + (bytes[2] \div 16) + 1],
           Base64Alphabet[((bytes[2] % 16) * 4) + (bytes[3] \div 64) + 1],
           Base64Alphabet[(bytes[3] % 64) + 1]>>
         \o Base64Encode(SubSeq(bytes, 4, Len(bytes)))

\* Buffer.from(s).toString('base64')
base64(s) == Base64Encode(utf8Bytes(s))

\* req.headers[name]: the value filed under the name, '' standing for
\* undefined as well (the code only tests such values for truthiness).
headerOf(headers, name) == IF name \in DOMAIN headers THEN headers[name] ELSE <<>>

\* Mutant: a timestamp taken from the client's header when there is one.
timestampFromClient(headers, clock) ==
    IF headerOf(headers, lowerCaseName(TIMESTAMP_HEADER)) # <<>>
    THEN headerOf(headers, lowerCaseName(TIMESTAMP_HEADER))
    ELSE IntToString(clock)

\* Date.now().toString()
timestampOf(headers, clock) == IntToString(clock)

\* path + (queryString ? '?' + queryString : '')
originalUrlOf(path, query) ==
    LET queryString == IF Len(query) > 0 THEN qsStringify(query) ELSE <<>>
    IN  path \o (IF queryString # <<>> THEN <<"?">> \o queryString ELSE <<>>)

\* Mutant: a message with the body ahead of the URL.
signMessageBodyFirst(method, path, query, body, timestamp, recvWindow) ==
    <<method, "|">> \o bodyStringOf(body) \o <<"|">>
        \o encodeURIComponent(originalUrlOf(path, query)) \o <<"|">> \o timestamp
        \o <<"|">> \o IntToString(recvWindow)

\* Mutant: a message that leaves the timestamp out.
signMessageNoTimestamp(method, path, query, body, timestamp, recvWindow) ==
    <<method, "|">> \o encodeURIComponent(originalUrlOf(path, query))
        \o <<"|">> \o bodyStringOf(body) \o <<"|">> \o IntToString(recvWindow)

\* `${method}|${encodedUrl}|${bodyString}|${timestamp}|${recvWindow}`
signMessage(method, path, query, body, timestamp, recvWindow) ==
    <<method, "|">> \o encodeURIComponent(originalUrlOf(path, query))
        \o <<"|">> \o bodyStringOf(body) \o <<"|">> \o timestamp
        \o <<"|">> \o IntToString(recvWindow)

\* The hex digest proxyRequest puts in the signature header.
signatureOf(method, path, query, body, timestamp, recvWindow, secret) ==
    hmacSha256Hex(secret, signMessage(method, path, query, body, timestamp, recvWindow))

\* Mutant: a target URL built from the path alone, the query left out.
proxyRequestLocalsUrlWithoutQuery(method, path, headers, query, bodyArg, clock) ==
    LET body == IF bodyArg.kind = "undefined" THEN BodyObject(<<>>) ELSE bodyArg
        timestamp == timestampOf(headers, clock)
        recvWindow == resolveRecvWindow(headerOf(headers, lowerCaseName(RECV_WINDOW_HEADER)))
        originalUrl == originalUrlOf(path, query)
    IN  [method |-> method, path |-> path, headers |-> headers, query |-> query,
         body |-> body, timestamp |-> timestamp, recvWindow |-> recvWindow,
         originalUrl |-> originalUrl, encodedUrl |-> encodeURIComponent(originalUrl),
         bodyString |-> bodyStringOf(body),
         message |-> signMessage(method, path, query, body, timestamp, recvWindow),
         signature |-> signatureOf(method, path, query, body, timestamp, recvWindow,
                                   astrabitApiSecret),
         targetUrl |-> <<copyGatewayUrl>> \o path]

\* proxyRequest up to its first await: the arguments (body defaulted to {})
\* and every local computed before authProvider.getUserId is called.
proxyRequestLocals(method, path, headers, query, bodyArg, clock) ==
    LET body == IF bodyArg.kind = "undefined" THEN BodyObject(<<>>) ELSE bodyArg
        timestamp == timestampOf(headers, clock)
        recvWindow == resolveRecvWindow(headerOf(headers, lowerCaseName(RECV_WINDOW_HEADER)))
        originalUrl == originalUrlOf(path, query)
        encodedUrl == encodeURIComponent(originalUrl)
        bodyString == bodyStringOf(body)
        message == signMessage(method, path, query, body, timestamp, recvWindow)
    IN  [method |-> method, path |-> path, headers |-> headers, query |-> query,
         body |-> body, timestamp |-> timestamp, recvWindow |-> recvWindow,
         originalUrl |-> originalUrl, encodedUrl |-> encodedUrl,
         bodyString |-> bodyString, message |-> message,
         signature |-> signatureOf(method, path, query, body, timestamp, recvWindow,
                                   astrabitApiSecret),
         targetUrl |-> <<copyGatewayUrl>> \o originalUrl]

\* Mutant: a request config that sends no data for a body without keys.
requestConfigNoDataWhenEmpty(locals, externalUserId) ==
    [method |-> locals.method,
     url |-> locals.targetUrl,
     data |-> IF Len(locals.body.entries) = 0 THEN BodyNull ELSE locals.body,
     headers |->
        (TOKEN_HEADER :> <<astrabitApiKey>>)
        @@ (SIGNATURE_HEADER :> locals.signature)
        @@ (TIMESTAMP_HEADER :> locals.timestamp)
        @@ (RECV_WINDOW_HEADER :> IntToString(locals.recvWindow))
        @@ (TOKEN_USER_HEADER :>
                IF externalUserId # <<>> THEN base64(externalUserId) ELSE <<>>)
        @@ ("Content-Type" :>
                IF headerOf(locals.headers, "content-type") # <<>>
                THEN headerOf(locals.headers, "content-type")
                ELSE <<"application/json">>)]

\* Mutant: a request config whose receive-window header is always the
\* default.
requestConfigDefaultRecvWindow(locals, externalUserId) ==
    [method |-> locals.method,
     url |-> locals.targetUrl,
     data |-> locals.body,
     headers |->
        (TOKEN_HEADER :> <<astrabitApiKey>>)
        @@ (SIGNATURE_HEADER :> locals.signature)
        @@ (TIMESTAMP_HEADER :> locals.timestamp)
        @@ (RECV_WINDOW_HEADER :> IntToString(RECV_WINDOW_DEFAULT))
        @@ (TOKEN_USER_HEADER :>
                IF externalUserId # <<>> THEN base64(externalUserId) ELSE <<>>)
        @@ ("Content-Type" :>
                IF headerOf(locals.headers, "content-type") # <<>>
                THEN headerOf(locals.headers, "content-type")
                ELSE <<"application/json">>)]

\* Mutant: a request config that also passes the inbound headers on.
requestConfigForwardingHeaders(locals, externalUserId) ==
    [method |-> locals.method,
     url |-> locals.targetUrl,
     data |-> locals.body,
     headers |->
        (TOKEN_HEADER :> <<astrabitApiKey>>)
        @@ (SIGNATURE_HEADER :> locals.signature)
        @@ (TIMESTAMP_HEADER :> locals.timestamp)
        @@ (RECV_WINDOW_HEADER :> IntToString(locals.recvWindow))
        @@ (TOKEN_USER_HEADER :>
                IF externalUserId # <<>> THEN base64(externalUserId) ELSE <<>>)
        @@ ("Content-Type" :>
                IF headerOf(locals.headers, "content-type") # <<>>
                THEN headerOf(locals.headers, "content-type")
                ELSE <<"application/json">>)
        @@ locals.headers]

\* Mutant: a request config that leaves the identity header out when the
\* identity is empty.
requestConfigOmittingEmptyIdentity(locals, externalUserId) ==
    [method |-> locals.method,
     url |-> locals.targetUrl,
     data |-> locals.body,
     headers |->
        (TOKEN_HEADER :> <<astrabitApiKey>>)
        @@ (SIGNATURE_HEADER :> locals.signature)
        @@ (TIMESTAMP_HEADER :> locals.timestamp)
        @@ (RECV_WINDOW_HEADER :> IntToString(locals.recvWindow))
        @@ (IF externalUserId # <<>>
            THEN (TOKEN_USER_HEADER :> base64(externalUserId))
            ELSE [n \in {} |-> <<>>])
        @@ ("Content-Type" :>
                IF headerOf(locals.headers, "content-type") # <<>>
                THEN headerOf(locals.headers, "content-type")
                ELSE <<"application/json">>)]

\* The AxiosRequestConfig proxyRequest builds once the identity is known.
requestConfigOf(locals, externalUserId) ==
    [method |-> locals.method,
     url |-> locals.targetUrl,
     data |-> locals.body,
     headers |->
        (TOKEN_HEADER :> <<astrabitApiKey>>)
        @@ (SIGNATURE_HEADER :> locals.signature)
        @@ (TIMESTAMP_HEADER :> locals.timestamp)
        @@ (RECV_WINDOW_HEADER :> IntToString(locals.recvWindow))
        @@ (TOKEN_USER_HEADER :>
                IF externalUserId # <<>> THEN base64(externalUserId) ELSE <<>>)
        @@ ("Content-Type" :>
                IF headerOf(locals.headers, "content-type") # <<>>
                THEN headerOf(locals.headers, "content-type")
                ELSE <<"application/json">>)]

\* ------------------------------------------------------- inputs, outcomes
Methods == {"GET", "POST"}

\* req.headers: no header the proxy reads; a receive window; a receive
\* window above RECV_WINDOW_MAX_SIZE and a content type; a content type
\* together with the client's own API-key, signature, timestamp, identity and
\* authorization headers.
InboundHeaders ==
    { [n \in {} |-> <<>>],
      ("x-astrabit-recv-window" :> <<"1", "0">>),
      ("x-astrabit-recv-window" :> <<"3", "6", "0", "0", "0", "0", "1">>)
        @@ ("content-type" :> <<"application/xml">>),
      ("content-type" :> <<"application/xml">>)
        @@ ("x-astrabit-api-key" :> <<"client-key">>)
        @@ ("x-astrabit-signature" :> <<"client-signature">>)
        @@ ("x-astrabit-timestamp" :> <<"9", "9">>)
        @@ ("x-astrabit-user-id" :> <<"Y", "Q", "=", "=">>)
        @@ ("authorization" :> <<"Bearer token">>) }

Queries == {<<>>, << << <<"limit">>, <<"1", "0">> >> >>}
Bodies == {BodyUndefined, BodyObject(<<>>), BodyObject(<< <<"name", "X">> >>)}

\* What the Identity Delegate resolves to: '' or a user id.
Identities == {<<>>, <<"u", "s", "e", "r", "1", "2", "3">>, <<"a", "b">>}

\* Values that are not objects: undefined and the empty string, both falsy.
Undefined == [undefined |-> TRUE]
EmptyString == [empty |-> TRUE]
IsFalsy(v) == "undefined" \in DOMAIN v \/ "empty" \in DOMAIN v

\* Errors: message, and the 'response' attribute when the error has one
\* (status 0: the response has no truthy status).
NoResponse == [present |-> FALSE, status |-> 0, data |-> Undefined]
ErrorOf(message, response) == [message |-> message, response |-> response]

\* What the Identity Delegate rejects with: a plain Error, the framework's
\* UnauthorizedException (its response is {statusCode, message, error}: no
\* status, no data), and the error of a failed HTTP call to an identity
\* service, which carries that call's response: its status and its body, a
\* parsed object or '' for an empty body.
AuthErrors ==
    {ErrorOf(<<"Invalid token">>, NoResponse),
     ErrorOf(<<"Invalid token">>,
             [present |-> TRUE, status |-> 0, data |-> Undefined]),
     ErrorOf(<<"Request failed with status code 401">>,
             [present |-> TRUE, status |-> 401,
              data |-> [message |-> <<"token expired">>]]),
     ErrorOf(<<"Request failed with status code 401">>,
             [present |-> TRUE, status |-> 401, data |-> EmptyString])}

\* What axios rejects with under validateStatus: () => true: transport
\* failures, which have no response.
TransportErrors ==
    {ErrorOf(<<"timeout of 30000ms exceeded">>, NoResponse),
     ErrorOf(<<"connect ECONNREFUSED">>, NoResponse)}

UpstreamStatuses == {200, 302, 404, 500}
\* response.data: a parsed JSON object, or '' for an empty body.
UpstreamBodies == {[success |-> "true"], [message |-> <<"Not found">>], EmptyString}
\* response.headers as name/value pairs: none, or hop-by-hop headers in
\* several spellings next to headers that are not hop-by-hop.
UpstreamHeaderSets ==
    {{},
     {<<<<"C", "onnection">>, "keep-alive">>,
      <<<<"k", "eep-alive">>, "timeout=5">>,
      <<<<"T", "ransfer-encoding">>, "chunked">>,
      <<<<"U", "PGRADE">>, "h2c">>,
      <<<<"u", "pgrade", "-insecure-requests">>, "1">>,
      <<<<"c", "ontent-type">>, "application/json">>,
      <<<<"x-custom-header">>, "custom-value">>}}
\* What axios receives: each status with a body and with an empty body,
\* with and without headers.
UpstreamResponses ==
    LET none == {}
        some == CHOOSE h \in UpstreamHeaderSets : h # {}
        success == [success |-> "true"]
        notFound == [message |-> <<"Not found">>]
        response(status, data, headers) ==
            [status |-> status, data |-> data, headers |-> headers]
    IN  {response(200, success, none), response(200, EmptyString, some),
         response(302, success, some), response(302, EmptyString, none),
         response(404, notFound, some), response(404, EmptyString, none),
         response(500, notFound, none), response(500, success, some)}

\* Mutant: the validateStatus axios uses when none is configured.
validateStatusDefault(status) == status >= 200 /\ status < 300

\* axios.create({validateStatus: () => true})
validateStatus(status) == TRUE

\* The error axios rejects with when validateStatus refuses a status.
AxiosStatusError(response) ==
    ErrorOf(<<"Request failed with status code ">> \o IntToString(response.status),
            [present |-> TRUE, status |-> response.status, data |-> response.data])

\* ------------------------------------------------------------- controller
headersToExclude ==
    {<<"c", "onnection">>, <<"k", "eep-alive">>, <<"t", "ransfer-encoding">>, <<"u", "pgrade">>}

VersionRequiredResponse(supportedVersions) ==
    [status |-> 400,
     body |-> [message |-> <<"API version required. Prefix requests with /v1.">>,
               supportedVersions |-> formatSupportedVersions(supportedVersions)],
     headers |-> {}]

UnsupportedVersionResponse(requestedVersion, supportedVersions) ==
    [status |-> 400,
     body |-> [message |-> <<"Unsupported API version '">> \o requestedVersion \o <<"'.">>,
               supportedVersions |-> formatSupportedVersions(supportedVersions)],
     headers |-> {}]

ExcludedResponse == [status |-> 200, body |-> [status |-> "ok"], headers |-> {}]

GenericErrorBody == [message |-> <<"Internal server error while proxying request">>]

\* Mutant: a catch block that answers every error with the generic 500.
ErrorResponseGeneric(error) ==
    [status |-> 500, body |-> GenericErrorBody, headers |-> {}]

\* Mutant: a catch block that reports the error's own message.
ErrorResponseOwnMessage(error) ==
    IF error.response.present
    THEN [status |-> IF error.response.status # 0 THEN error.response.status ELSE 500,
          body |-> IF ~IsFalsy(error.response.data)
                   THEN error.response.data
                   ELSE [message |-> error.message],
          headers |-> {}]
    ELSE [status |-> 500, body |-> [message |-> error.message], headers |-> {}]

\* Mutant: a catch block that relays only an error whose response has a
\* status.
ErrorResponseByStatus(error) ==
    IF error.response.present /\ error.response.status # 0
    THEN [status |-> error.response.status,
          body |-> IF ~IsFalsy(error.response.data)
                   THEN error.response.data
                   ELSE [message |-> error.message],
          headers |-> {}]
    ELSE [status |-> 500, body |-> GenericErrorBody, headers |-> {}]

\* The catch block of ProxyController.proxy.
ErrorResponse(error) ==
    IF error.response.present
    THEN [status |-> IF error.response.status # 0 THEN error.response.status ELSE 500,
          body |-> IF ~IsFalsy(error.response.data)
                   THEN error.response.data
                   ELSE [message |-> error.message],
          headers |-> {}]
    ELSE [status |-> 500, body |-> GenericErrorBody, headers |-> {}]

\* Mutant: a relay that compares header names as they are spelled.
RelayResponseCaseSensitive(response) ==
    [status |-> response.status,
     body |-> response.data,
     headers |-> {h \in response.headers : h[1] \notin headersToExclude}]

\* The relay of ProxyController.proxy: headers minus hop-by-hop, status, body.
RelayResponse(response) ==
    [status |-> response.status,
     body |-> response.data,
     headers |-> {h \in response.headers : toLowerCase(h[1]) \notin headersToExclude}]

\* ------------------------------------------------------------------ state
VARIABLES
    versioning,     \* ProxyService.versioning, read from the configuration
    now,            \* the proxy's clock (Date.now())
    pc,             \* where the handler of the request stands
    req,            \* the inbound request line: method and path
    proxyCalls,     \* invocations of proxyRequest, each with its locals
    authCalls,      \* invocations of authProvider.getUserId
    identity,       \* how getUserId settled, and when
    upstreamCalls,  \* requests handed to axiosInstance.request
    upstream,       \* how the upstream call settled
    res,            \* responses sent to the client
    events,         \* the stages of the handler, in the order they ran
    call,           \* one operation invoked on its own: arguments and result
    handlers        \* the invocations of the handler that are in flight together

vars ==
    <<versioning, now, pc, req, proxyCalls, authCalls, identity,
      upstreamCalls, upstream, res, events, call, handlers>>

\* No operation is invoked on its own; no invocations run side by side.
NoCall == [fn |-> "", args |-> <<>>, result |-> <<>>]
NoHandlers == <<>>

NoRequest == [method |-> "", path |-> <<>>]

\* ProxyService.resolveGatewayVersion
\* Mutant: the requested version passed through, the map ignored.
resolveGatewayVersionIdentity(version) == version

resolveGatewayVersion(version) ==
    IF version \in DOMAIN versioning.gatewayVersionMap
    THEN versioning.gatewayVersionMap[version]
    ELSE versioning.defaultVersion

getSupportedVersions == versioning.supportedVersions

Init ==
    /\ \E env \in Environments : versioning = apiVersioning(env)
    /\ now = 0
    /\ pc = "idle"
    /\ req = NoRequest
    /\ proxyCalls = <<>>
    /\ authCalls = 0
    /\ identity = <<>>
    /\ upstreamCalls = <<>>
    /\ upstream = <<>>
    /\ res = <<>>
    /\ events = <<>>
    /\ call = NoCall
    /\ handlers = NoHandlers

Untouched ==
    UNCHANGED <<now, proxyCalls, authCalls, identity, upstreamCalls, upstream>>

\* ProxyController.proxy from its entry to its first suspension: the
\* exclusion test, version resolution, and, for a supported version,
\* proxyRequest up to the await of authProvider.getUserId.
Receive(method, path) ==
    /\ pc = "idle"
    /\ req' = [method |-> method, path |-> path]
    /\ UNCHANGED <<versioning, call, handlers>>
    /\ LET versionMatch == VersionMatch(path)
           supportedVersions == getSupportedVersions
           requestedVersion == toLowerCase(versionMatch.version)
           remainingPath == versionMatch.rest
       IN  IF isExcludedPath(path)
           THEN /\ res' = Append(res, ExcludedResponse)
                /\ events' = Append(events, "response")
                /\ pc' = "done"
                /\ Untouched
           ELSE IF ~versionMatch.matched
           THEN /\ res' = Append(res, VersionRequiredResponse(supportedVersions))
                /\ events' = Append(events, "error")
                /\ pc' = "done"
                /\ Untouched
           ELSE IF ~isSupportedVersion(requestedVersion, supportedVersions)
           THEN /\ res' = Append(res,
                            UnsupportedVersionResponse(requestedVersion, supportedVersions))
                /\ events' = Append(events, "error")
                /\ pc' = "done"
                /\ Untouched
           ELSE LET gatewayVersion == resolveGatewayVersion(requestedVersion)
                    targetPath == <<"/">> \o gatewayVersion \o remainingPath
                IN  \E headers \in InboundHeaders, query \in Queries, body \in Bodies,
                       clock \in now..MaxClock :
                        /\ now' = clock
                        /\ proxyCalls' = Append(proxyCalls,
                               proxyRequestLocals(method, targetPath, headers, query,
                                                  body, clock))
                        /\ authCalls' = authCalls + 1
                        /\ events' = events \o <<"version", "sign", "getUserId">>
                        /\ pc' = "awaitGetUserId"
                        /\ UNCHANGED <<identity, upstreamCalls, upstream, res>>

\* Mutant: a timestamp header read from the clock again at dispatch.
AuthResolveRefreshingTimestamp(externalUserId) ==
    /\ pc = "awaitGetUserId"
    /\ identity' = Append(identity, [ok |-> TRUE, userId |-> externalUserId, at |-> now])
    /\ upstreamCalls' =
           Append(upstreamCalls,
                  requestConfigOf([proxyCalls[Len(proxyCalls)] EXCEPT
                                       !.timestamp = IntToString(now)],
                                  externalUserId))
    /\ events' = events \o <<"identity", "dispatch">>
    /\ pc' = "awaitAxios"
    /\ UNCHANGED <<call, handlers>>
    /\ UNCHANGED <<versioning, now, req, proxyCalls, authCalls, upstream, res>>

\* getUserId resolves: proxyRequest builds the request config and hands it
\* to axios.
AuthResolve(externalUserId) ==
    /\ pc = "awaitGetUserId"
    /\ identity' = Append(identity, [ok |-> TRUE, userId |-> externalUserId, at |-> now])
    /\ upstreamCalls' = Append(upstreamCalls,
                               requestConfigOf(proxyCalls[Len(proxyCalls)], externalUserId))
    /\ events' = events \o <<"identity", "dispatch">>
    /\ pc' = "awaitAxios"
    /\ UNCHANGED <<call, handlers>>
    /\ UNCHANGED <<versioning, now, req, proxyCalls, authCalls, upstream, res>>

\* Mutant: a rejected getUserId answered with the error response, the
\* request dispatched all the same.
AuthRejectThenDispatch(error) ==
    /\ pc = "awaitGetUserId"
    /\ identity' = Append(identity, [ok |-> FALSE, error |-> error, at |-> now])
    /\ res' = Append(res, ErrorResponse(error))
    /\ upstreamCalls' = Append(upstreamCalls,
                               requestConfigOf(proxyCalls[Len(proxyCalls)], <<>>))
    /\ events' = events \o <<"error", "dispatch">>
    /\ pc' = "awaitAxios"
    /\ UNCHANGED <<call, handlers>>
    /\ UNCHANGED <<versioning, now, req, proxyCalls, authCalls, upstream>>

\* getUserId rejects: the await sits outside proxyRequest's try, so the
\* error reaches the controller's catch block as it is.
AuthReject(error) ==
    /\ pc = "awaitGetUserId"
    /\ identity' = Append(identity, [ok |-> FALSE, error |-> error, at |-> now])
    /\ res' = Append(res, ErrorResponse(error))
    /\ events' = Append(events, "error")
    /\ pc' = "done"
    /\ UNCHANGED <<call, handlers>>
    /\ UNCHANGED <<versioning, now, req, proxyCalls, authCalls, upstreamCalls, upstream>>

\* The upstream answers. axios resolves when validateStatus accepts the
\* status: proxyRequest returns data, status and headers, and the controller
\* relays them. Otherwise axios rejects with an error that carries the
\* response, which proxyRequest rethrows to the controller's catch block.
UpstreamRespond(response) ==
    /\ pc = "awaitAxios"
    /\ upstream' = Append(upstream, [ok |-> TRUE, response |-> response])
    /\ IF validateStatus(response.status)
       THEN /\ res' = Append(res, RelayResponse(response))
            /\ events' = Append(events, "response")
       ELSE /\ res' = Append(res, ErrorResponse(AxiosStatusError(response)))
            /\ events' = Append(events, "error")
    /\ pc' = "done"
    /\ UNCHANGED <<call, handlers>>
    /\ UNCHANGED <<versioning, now, req, proxyCalls, authCalls, identity, upstreamCalls>>

\* Mutant: a transport failure answered by one more attempt.
UpstreamFailRetry(error) ==
    /\ pc = "awaitAxios"
    /\ Len(upstreamCalls) < 2
    /\ upstreamCalls' = Append(upstreamCalls, upstreamCalls[Len(upstreamCalls)])
    /\ events' = Append(events, "dispatch")
    /\ UNCHANGED <<call, handlers>>
    /\ UNCHANGED <<versioning, now, pc, req, proxyCalls, authCalls, identity, upstream, res>>

\* axios rejects: proxyRequest logs and rethrows, the controller's catch
\* block answers.
UpstreamFail(error) ==
    /\ pc = "awaitAxios"
    /\ upstream' = Append(upstream, [ok |-> FALSE, error |-> error])
    /\ res' = Append(res, ErrorResponse(error))
    /\ events' = Append(events, "error")
    /\ pc' = "done"
    /\ UNCHANGED <<call, handlers>>
    /\ UNCHANGED <<versioning, now, req, proxyCalls, authCalls, identity, upstreamCalls>>

Next ==
    \/ pc = "idle" /\ \E method \in Methods, path \in Paths : Receive(method, path)
    \/ \E externalUserId \in Identities : AuthResolve(externalUserId)
    \/ \E error \in AuthErrors : AuthReject(error)
    \/ \E response \in UpstreamResponses : UpstreamRespond(response)
    \/ \E error \in TransportErrors : UpstreamFail(error)

Spec == Init /\ [][Next]_vars

\* The outbound call settles: axios is created with timeout 30000, so a call
\* that gets no response is rejected. Nothing bounds the await of getUserId.
UpstreamSettles ==
    \/ \E response \in UpstreamResponses : UpstreamRespond(response)
    \/ \E error \in TransportErrors : UpstreamFail(error)

LiveSpec == Init /\ [][Next]_vars /\ WF_vars(UpstreamSettles)

\* ------------------------------------------------- requests side by side
\* Invocations of ProxyController.proxy that are in flight together. Each
\* invocation has its own frame (the parameters and locals of proxy and
\* proxyRequest); the service's versioning and the clock are shared.
NumReq == 2
Requests == 1..NumReq

\* The handler from its entry to the call of proxyRequest: the response of
\* an early return, or the path handed to proxyRequest.
versionResolution(path) ==
    LET versionMatch == VersionMatch(path)
        supportedVersions == getSupportedVersions
        requestedVersion == toLowerCase(versionMatch.version)
        remainingPath == versionMatch.rest
    IN  IF isExcludedPath(path)
        THEN [response |-> <<ExcludedResponse>>, targetPath |-> <<>>]
        ELSE IF ~versionMatch.matched
        THEN [response |-> <<VersionRequiredResponse(supportedVersions)>>,
              targetPath |-> <<>>]
        ELSE IF ~isSupportedVersion(requestedVersion, supportedVersions)
        THEN [response |->
                  <<UnsupportedVersionResponse(requestedVersion, supportedVersions)>>,
              targetPath |-> <<>>]
        ELSE [response |-> <<>>,
              targetPath |->
                  <<"/">> \o resolveGatewayVersion(requestedVersion) \o remainingPath]

\* The requests that arrive side by side.
ConcInputs ==
    {[method |-> "GET", path |-> <<"/", "v", "1", "/", "a">>,
      headers |-> ("x-astrabit-recv-window" :> <<"1", "0">>),
      query |-> <<>>, body |-> BodyUndefined],
     [method |-> "POST", path |-> <<"/", "v", "2">>,
      headers |-> ("content-type" :> <<"application/xml">>)
                  @@ ("x-astrabit-timestamp" :> <<"9", "9">>),
      query |-> << << <<"limit">>, <<"1", "0">> >> >>,
      body |-> BodyObject(<< <<"name", "X">> >>)],
     [method |-> "GET", path |-> <<"/", "a">>,
      headers |-> [n \in {} |-> <<>>],
      query |-> <<>>, body |-> BodyUndefined]}
NoInput ==
    [method |-> "", path |-> <<>>, headers |-> [n \in {} |-> <<>>],
     query |-> <<>>, body |-> BodyUndefined]
ConcIdentities == {<<"a", "b">>}
ConcAuthErrors == {ErrorOf(<<"Invalid token">>, NoResponse)}
ConcResponses ==
    {[status |-> 404, data |-> [message |-> <<"Not found">>],
      headers |-> {<<<<"C", "onnection">>, "keep-alive">>,
                   <<<<"x-custom-header">>, "custom-value">>}]}
ConcTransportErrors == {ErrorOf(<<"timeout of 30000ms exceeded">>, NoResponse)}

IdleFrame ==
    [pc |-> "idle", input |-> NoInput, clock |-> 0, locals |-> <<>>,
     identity |-> <<>>, config |-> <<>>, upstream |-> <<>>, response |-> <<>>]

\* Mutant: the locals of proxyRequest kept in one slot of the service, which
\* holds those of whichever request signed.
frameShared(r) ==
    IF \E q \in Requests : handlers[q].locals # <<>>
    THEN handlers[CHOOSE q \in Requests : handlers[q].locals # <<>>]
    ELSE handlers[r]

\* The frame of invocation r.
frameOf(r) == handlers[r]

\* API_SUPPORTED_VERSIONS="v2,v1,x" API_GATEWAY_VERSION_MAP={"V1":"v2"}
ConcInit ==
    /\ versioning =
           apiVersioning([API_SUPPORTED_VERSIONS |-> << <<"v", "2">>, <<"v", "1">>, <<"x">> >>,
                          API_DEFAULT_VERSION |-> <<>>,
                          API_GATEWAY_VERSION_MAP |->
                              MapJson(<< << <<"V", "1">>,
                                            JsonString(<<"v", "2">>) >> >>)])
    /\ now = 0
    /\ pc = "idle"
    /\ req = NoRequest
    /\ proxyCalls = <<>>
    /\ authCalls = 0
    /\ identity = <<>>
    /\ upstreamCalls = <<>>
    /\ upstream = <<>>
    /\ res = <<>>
    /\ events = <<>>
    /\ call = NoCall
    /\ handlers = [r \in Requests |-> IdleFrame]

ConcUnchanged ==
    UNCHANGED <<versioning, pc, req, proxyCalls, authCalls, identity,
                upstreamCalls, upstream, res, events, call>>

\* Invocation r runs from its entry to its first suspension.
ConcReceive(r, input, clock) ==
    /\ handlers[r].pc = "idle"
    /\ clock >= now
    /\ LET entry == versionResolution(input.path)
       IN  IF entry.response # <<>>
           THEN /\ handlers' = [handlers EXCEPT
                       ![r] = [@ EXCEPT !.pc = "done", !.input = input,
                                        !.response = entry.response]]
                /\ UNCHANGED now
           ELSE /\ handlers' = [handlers EXCEPT
                       ![r] = [@ EXCEPT !.pc = "awaitGetUserId", !.input = input,
                                        !.clock = clock,
                                        !.locals = <<proxyRequestLocals(
                                            input.method, entry.targetPath, input.headers,
                                            input.query, input.body, clock)>>]]
                /\ now' = clock
    /\ ConcUnchanged

\* getUserId of invocation r resolves: it builds its request config from its
\* own locals and hands it to axios.
ConcAuthResolve(r, externalUserId) ==
    /\ handlers[r].pc = "awaitGetUserId"
    /\ handlers' = [handlers EXCEPT
           ![r] = [@ EXCEPT !.pc = "awaitAxios",
                            !.identity = <<[ok |-> TRUE, userId |-> externalUserId]>>,
                            !.config = <<requestConfigOf(frameOf(r).locals[1],
                                                         externalUserId)>>]]
    /\ UNCHANGED now
    /\ ConcUnchanged

\* getUserId of invocation r rejects.
ConcAuthReject(r, error) ==
    /\ handlers[r].pc = "awaitGetUserId"
    /\ handlers' = [handlers EXCEPT
           ![r] = [@ EXCEPT !.pc = "done",
                            !.identity = <<[ok |-> FALSE, error |-> error]>>,
                            !.response = <<ErrorResponse(error)>>]]
    /\ UNCHANGED now
    /\ ConcUnchanged

\* The upstream answers invocation r.
ConcUpstreamRespond(r, response) ==
    /\ handlers[r].pc = "awaitAxios"
    /\ handlers' = [handlers EXCEPT
           ![r] = [@ EXCEPT !.pc = "done",
                            !.upstream = <<[ok |-> TRUE, response |-> response]>>,
                            !.response =
                                IF validateStatus(response.status)
                                THEN <<RelayResponse(response)>>
                                ELSE <<ErrorResponse(AxiosStatusError(response))>>]]
    /\ UNCHANGED now
    /\ ConcUnchanged

\* The upstream call of invocation r fails.
ConcUpstreamFail(r, error) ==
    /\ handlers[r].pc = "awaitAxios"
    /\ handlers' = [handlers EXCEPT
           ![r] = [@ EXCEPT !.pc = "done",
                            !.upstream = <<[ok |-> FALSE, error |-> error]>>,
                            !.response = <<ErrorResponse(error)>>]]
    /\ UNCHANGED now
    /\ ConcUnchanged

ConcNext ==
    \/ \E r \in Requests, input \in ConcInputs, clock \in 0..MaxClock :
           ConcReceive(r, input, clock)
    \/ \E r \in Requests, externalUserId \in ConcIdentities :
           ConcAuthResolve(r, externalUserId)
    \/ \E r \in Requests, error \in ConcAuthErrors : ConcAuthReject(r, error)
    \/ \E r \in Requests, response \in ConcResponses : ConcUpstreamRespond(r, response)
    \/ \E r \in Requests, error \in ConcTransportErrors : ConcUpstreamFail(r, error)

ConcSpec == ConcInit /\ [][ConcNext]_vars

\* ------------------------------------------- operations invoked on their own
\* The service as constructed with nothing set in the environment and no
\* request received.
Quiet ==
    /\ versioning = apiVersioning([API_SUPPORTED_VERSIONS |-> <<>>,
                                   API_DEFAULT_VERSION |-> <<>>,
                                   API_GATEWAY_VERSION_MAP |-> MapUnset])
    /\ now = 0
    /\ pc = "idle"
    /\ req = NoRequest
    /\ proxyCalls = <<>>
    /\ authCalls = 0
    /\ identity = <<>>
    /\ upstreamCalls = <<>>
    /\ upstream = <<>>
    /\ res = <<>>
    /\ events = <<>>

QuietUnchanged ==
    UNCHANGED <<versioning, now, pc, req, proxyCalls, authCalls, identity,
                upstreamCalls, upstream, res, events>>

\* Longest receive-window header value, in characters.
MaxHeaderLen == 3

\* Characters of receive-window header values.
RecvWindowChars == {"0", "1", "5", "-", "+", ".", "a", " "}
RecvWindowHeaderValues == SeqsUpTo(RecvWindowChars, MaxHeaderLen)

\* proxyRequest resolving recvWindow from one header value.
RecvWindowInit ==
    /\ Quiet
    /\ handlers = NoHandlers
    /\ \E h \in RecvWindowHeaderValues :
           call = [fn |-> "resolveRecvWindow", args |-> <<h>>, result |-> <<>>]

ResolveRecvWindow ==
    /\ call.fn = "resolveRecvWindow"
    /\ call.result = <<>>
    /\ call' = [call EXCEPT !.result = <<resolveRecvWindow(call.args[1])>>]
    /\ QuietUnchanged
    /\ UNCHANGED handlers

RecvWindowNext == ResolveRecvWindow

RecvWindowSpec == RecvWindowInit /\ [][RecvWindowNext]_vars

\* The Signature Engine on its own: lines 56 to 72 of proxyRequest applied
\* to a method, path, query, body, timestamp, receive window and secret.
\* method is declared a string: the verbs the controller hands over, and a
\* verb spelled in lower case, as a direct caller may spell it.
SigMethods == Methods \cup {"get"}
SigPaths == {<<"/", "v", "1", "/", "a">>, <<"/", "v", "1", "/", "b">>}
\* Parsed queries: none; a=1; a=1&b=2 as two parameters; and the single
\* parameter a whose value is the text 1&b=2.
SigQueries ==
    {<<>>,
     << << <<"a">>, <<"1">> >> >>,
     << << <<"a">>, <<"1">> >>, << <<"b">>, <<"2">> >> >>,
     << << <<"a">>, <<"1", "&", "b", "=", "2">> >> >>}
SigBodies ==
    {BodyNull, BodyObject(<<>>), BodyObject(<< <<"name", "X">> >>),
     BodyObject(<< <<"name", "Y">> >>),
     BodyObject(<< <<"name", "X">>, <<"mode", "Y">> >>),
     BodyObject(<< <<"mode", "Y">>, <<"name", "X">> >>)}
SigTimestamps == {IntToString(t) : t \in 0..MaxClock}
SigRecvWindows == {RECV_WINDOW_DEFAULT, 10}
SigSecrets == {astrabitApiSecret, "other-secret"}
SigInputs ==
    SigMethods \X SigPaths \X SigQueries \X SigBodies \X SigTimestamps
        \X SigRecvWindows \X SigSecrets

SignatureInit ==
    /\ Quiet
    /\ handlers = NoHandlers
    /\ \E args \in SigInputs :
           call = [fn |-> "signatureOf", args |-> args, result |-> <<>>]

Sign ==
    /\ call.fn = "signatureOf"
    /\ call.result = <<>>
    /\ call' = [call EXCEPT !.result =
                    <<signatureOf(call.args[1], call.args[2], call.args[3], call.args[4],
                                  call.args[5], call.args[6], call.args[7])>>]
    /\ QuietUnchanged
    /\ UNCHANGED handlers

SignatureNext == Sign

SignatureSpec == SignatureInit /\ [][SignatureNext]_vars

\* The configuration loader on its own: apiVersioning of main.config.ts
\* applied to one setting of the three environment variables.
SupportedVersionsSettings ==
    {<<>>,
     << <<"v", "1">>, <<" ", "V", "2">> >>,
     << <<"v", "2">>, <<"v", "1">>, <<"x">> >>,
     << <<"x">>, <<"1">> >>,
     << <<"v", "2">> >>}
DefaultVersionSettings == {<<>>, <<"v", "9">>}
\* API_GATEWAY_VERSION_MAP: unset; {oops; null; {} (or a number); {"V1":"v2"};
\* {"x":"v1"}; {"v1":"latest"}; {"v1":" v2"}; {"v1":"v2","v2":3};
\* {"v1":"v2","V1":"v3"}; {"v9":"v1","v2":"v12"}; ["v2"].
GatewayVersionMapSettings ==
    {MapUnset, MapMalformed, MapNull, MapJson(<<>>),
     MapJson(<< << <<"V", "1">>, JsonString(<<"v", "2">>) >> >>),
     MapJson(<< << <<"x">>, JsonString(<<"v", "1">>) >> >>),
     MapJson(<< << <<"v", "1">>, JsonString(<<"latest">>) >> >>),
     MapJson(<< << <<"v", "1">>, JsonString(<<" ", "v", "2">>) >> >>),
     MapJson(<< << <<"v", "1">>, JsonString(<<"v", "2">>) >>,
                << <<"v", "2">>, JsonNumber(<<"3">>) >> >>),
     MapJson(<< << <<"v", "1">>, JsonString(<<"v", "2">>) >>,
                << <<"V", "1">>, JsonString(<<"v", "3">>) >> >>),
     MapJson(<< << <<"v", "9">>, JsonString(<<"v", "1">>) >>,
                << <<"v", "2">>, JsonString(<<"v", "1", "2">>) >> >>),
     MapJson(<< << <<"0">>, JsonString(<<"v", "2">>) >> >>)}
LoaderEnvironments ==
    [API_SUPPORTED_VERSIONS : SupportedVersionsSettings,
     API_DEFAULT_VERSION : DefaultVersionSettings,
     API_GATEWAY_VERSION_MAP : GatewayVersionMapSettings]

LoaderInit ==
    /\ Quiet
    /\ handlers = NoHandlers
    /\ \E env \in LoaderEnvironments :
           call = [fn |-> "apiVersioning", args |-> <<env>>, result |-> <<>>]

LoadVersioning ==
    /\ call.fn = "apiVersioning"
    /\ call.result = <<>>
    /\ call' = [call EXCEPT !.result = <<apiVersioning(call.args[1])>>]
    /\ QuietUnchanged
    /\ UNCHANGED handlers

LoaderNext == LoadVersioning

LoaderSpec == LoaderInit /\ [][LoaderNext]_vars

\* ------------------------------------------------ a request and the clock
\* One request with the clock running while its handler is suspended.
\* Latest reading of the clock while the handler waits.
MaxWait == 11

TimedMethods == {"GET"}
TimedPaths == {<<"/", "v", "1">>, <<"/", "a">>}

\* A millisecond passes while the handler awaits getUserId or axios.
Tick ==
    /\ pc \in {"awaitGetUserId", "awaitAxios"}
    /\ now < MaxWait
    /\ now' = now + 1
    /\ UNCHANGED <<versioning, pc, req, proxyCalls, authCalls, identity,
                   upstreamCalls, upstream, res, events, call, handlers>>

TimedInit == Quiet /\ call = NoCall /\ handlers = NoHandlers

TimedNext ==
    \/ pc = "idle" /\ \E method \in TimedMethods, path \in TimedPaths : Receive(method, path)
    \/ \E externalUserId \in Identities : AuthResolve(externalUserId)
    \/ \E error \in AuthErrors : AuthReject(error)
    \/ \E response \in UpstreamResponses : UpstreamRespond(response)
    \/ \E error \in TransportErrors : UpstreamFail(error)
    \/ Tick

TimedSpec == TimedInit /\ [][TimedNext]_vars

\* ----------------------------------------------------------------- claims
\* The request has been received (Receive sets req and leaves "idle").
Received == req # NoRequest

\* The path carries a leading version token: an optional '/', 'v', one or
\* more digits, then the end of the path or a '/'. Stated on the positions of
\* the path, independently of VersionMatch.
HasVersionToken(p) ==
    \E s \in 1..2 : \E e \in 1..Len(p) :
        /\ s <= Len(p)
        /\ (s = 2 => p[1] = "/")
        /\ p[s] = "v"
        /\ e > s
        /\ \A i \in (s + 1)..e : IsDigit(p[i])
        /\ (e = Len(p) \/ p[e + 1] = "/")

\* The token of a path that has one, and what follows it.
TokenStart(p) == IF p[1] = "/" THEN 2 ELSE 1
TokenEnd(p) ==
    CHOOSE e \in 1..Len(p) :
        /\ e > TokenStart(p)
        /\ \A i \in (TokenStart(p) + 1)..e : IsDigit(p[i])
        /\ (e = Len(p) \/ p[e + 1] = "/")
TokenOf(p) == SubSeq(p, TokenStart(p), TokenEnd(p))
RemainderOf(p) == SubSeq(p, TokenEnd(p) + 1, Len(p))

Supported(v) == \E i \in 1..Len(versioning.supportedVersions) : versioning.supportedVersions[i] = v

\* The configured versions, each behind a '/', in configured order.
SlashedVersions ==
    [i \in 1..Len(versioning.supportedVersions) |-> <<"/">> \o versioning.supportedVersions[i]]

Contains(s, t) == \E i \in 0..(Len(s) - Len(t)) : SubSeq(s, i + 1, i + Len(t)) = t

\* The request passed version resolution.
VersionResolved ==
    /\ Received
    /\ ~isExcludedPath(req.path)
    /\ HasVersionToken(req.path)
    /\ Supported(TokenOf(req.path))

IdentityOk == identity # <<>> /\ identity[1].ok
IdentityFailed == identity # <<>> /\ ~identity[1].ok

\* C1: a request whose path is not excluded and has no leading version token
\* is answered 400 with the "API version required" message and a
\* supportedVersions list, and proxyRequest, the Identity Delegate and the
\* upstream are never invoked for it.
C1_VersionRequired ==
    (Received /\ ~isExcludedPath(req.path) /\ ~HasVersionToken(req.path)) =>
        /\ pc = "done"
        /\ Len(res) = 1
        /\ res[1].status = 400
        /\ DOMAIN res[1].body = {"message", "supportedVersions"}
        /\ res[1].body.message = <<"API version required. Prefix requests with /v1.">>
        /\ proxyCalls = <<>>
        /\ authCalls = 0
        /\ upstreamCalls = <<>>

C1_Witness ==
    /\ pc = "done"
    /\ req.path = <<"/", "a", "/", "v">>
    /\ Len(res) = 1
    /\ res[1].status = 400

\* C2: a request whose version token is not a supported version is answered
\* 400 with a message naming the requested version and the configured
\* versions, each prefixed by '/', in configured order; proxyRequest is never
\* invoked.
C2_UnsupportedVersion ==
    (Received /\ ~isExcludedPath(req.path) /\ HasVersionToken(req.path)
        /\ ~Supported(TokenOf(req.path))) =>
        /\ pc = "done"
        /\ Len(res) = 1
        /\ res[1].status = 400
        /\ res[1].body.message[1] = "Unsupported API version '"
        /\ Contains(res[1].body.message, TokenOf(req.path))
        /\ res[1].body.supportedVersions = SlashedVersions
        /\ proxyCalls = <<>>
        /\ authCalls = 0
        /\ upstreamCalls = <<>>

C2_Witness ==
    /\ pc = "done"
    /\ req.path = <<"/", "v", "1", "/">>
    /\ versioning.supportedVersions = << <<"v", "2">> >>
    /\ Len(res) = 1
    /\ res[1].body.supportedVersions = << <<"/", "v", "2">> >>

\* Version tokens resolveGatewayVersion is asked about directly.
TokenSamples ==
    {<<"v", "1">>, <<"v", "2">>, <<"v", "3">>, <<"v", "9">>, <<"v", "9", "9">>,
     <<"v", "1", "2">>, <<"V", "1">>, <<"x">>, <<>>}

\* C3: a request to '/' + v + r, v a supported version and r empty or
\* starting with '/', is forwarded with path '/' + g + r, where g is
\* gatewayVersionMap[v] when that entry exists and defaultVersion otherwise;
\* resolveGatewayVersion returns defaultVersion for every token with no entry.
C3_GatewayRewrite ==
    /\ (Received /\ HasVersionToken(req.path) /\ Supported(TokenOf(req.path))) =>
        LET v == TokenOf(req.path)
            r == RemainderOf(req.path)
            g == IF v \in DOMAIN versioning.gatewayVersionMap
                 THEN versioning.gatewayVersionMap[v]
                 ELSE versioning.defaultVersion
        IN  /\ req.path = <<"/">> \o v \o r
            /\ r = <<>> \/ r[1] = "/"
            /\ Len(proxyCalls) = 1
            /\ proxyCalls[1].path = <<"/">> \o g \o r
            /\ \A i \in 1..Len(upstreamCalls) :
                   startsWith(upstreamCalls[i].url, <<copyGatewayUrl, "/">> \o g \o r)
    /\ \A tok \in TokenSamples :
           tok \notin DOMAIN versioning.gatewayVersionMap =>
               resolveGatewayVersion(tok) = versioning.defaultVersion

C3_Witness ==
    /\ req.path = <<"/", "v", "1", "/">>
    /\ Len(proxyCalls) = 1
    /\ proxyCalls[1].path = <<"/", "v", "2", "/">>
    /\ Len(upstreamCalls) = 1

\* C4: the version token is matched case-insensitively: a path whose lower-
\* case spelling starts with a supported version is not rejected and is
\* resolved as the lower-case path is. (Violated: the pattern has no i flag.)
C4_CaseInsensitive ==
    (Received /\ ~isExcludedPath(req.path)
        /\ HasVersionToken(toLowerCase(req.path))
        /\ Supported(TokenOf(toLowerCase(req.path)))) =>
        LET v == TokenOf(toLowerCase(req.path))
            r == RemainderOf(toLowerCase(req.path))
            g == IF v \in DOMAIN versioning.gatewayVersionMap
                 THEN versioning.gatewayVersionMap[v]
                 ELSE versioning.defaultVersion
        IN  /\ Len(proxyCalls) = 1
            /\ proxyCalls[1].path = <<"/">> \o g \o r

\* C5: the signature is computed only after the Identity Delegate has
\* completed successfully, and a request whose delegate fails is ERRORED
\* without any signature having been computed. (Violated: proxyRequest signs
\* before it awaits getUserId.)
C5_SignAfterIdentity ==
    \A i \in 1..Len(proxyCalls) :
        proxyCalls[i].signature # NotSigned => IdentityOk

\* C6: an upstream call exists only for a request that passed version
\* resolution and whose Identity Delegate call succeeded.
C6_NoUpstreamBeforeDispatch ==
    /\ upstreamCalls # <<>> => (VersionResolved /\ IdentityOk)
    /\ (pc = "done" /\ (~VersionResolved \/ IdentityFailed)) =>
           (upstreamCalls = <<>> /\ upstream = <<>>)

C6_Witness ==
    /\ pc = "done"
    /\ VersionResolved
    /\ IdentityFailed
    /\ upstreamCalls = <<>>

\* C7: at most one upstream call per request, and exactly one once version
\* and identity resolution have succeeded, whatever the upstream outcome.
C7_ExactlyOnce ==
    /\ Len(upstreamCalls) <= 1
    /\ (VersionResolved /\ IdentityOk) => Len(upstreamCalls) = 1
    /\ upstream # <<>> => (pc = "done" /\ Len(upstreamCalls) = 1 /\ Len(upstream) = 1)

C7_Witness ==
    /\ pc = "done"
    /\ upstream # <<>>
    /\ ~upstream[1].ok
    /\ Len(upstreamCalls) = 1

\* C8 as stated: whatever error the Identity Delegate raises, the client
\* receives 500. (Violated by an error that carries a response with a status.)
C8_AlwaysInternalError ==
    IdentityFailed => (Len(res) = 1 /\ res[1].status = 500)

\* C8 amended: a failed Identity Delegate is answered 500 unless its error
\* carries a response with a truthy status, which is then the status sent.
C8_IdentityFailureStatus ==
    IdentityFailed =>
        LET error == identity[1].error
        IN  /\ Len(res) = 1
            /\ res[1].status =
                   IF error.response.present /\ error.response.status # 0
                   THEN error.response.status
                   ELSE 500

C8_Witness ==
    /\ IdentityFailed
    /\ identity[1].error.response.present
    /\ identity[1].error.response.status = 0
    /\ Len(res) = 1
    /\ res[1].status = 500

C10_UnreachableGeneric ==
    (upstream # <<>> /\ ~upstream[1].ok /\ ~upstream[1].error.response.present) =>
        /\ Len(res) = 1
        /\ res[1].status = 500
        /\ res[1].body = [message |-> <<"Internal server error while proxying request">>]

C10_Witness ==
    /\ upstream # <<>>
    /\ ~upstream[1].ok
    /\ upstream[1].error.message = <<"timeout of 30000ms exceeded">>
    /\ Len(res) = 1
    /\ res[1].status = 500

\* The four hop-by-hop header names, in lower case.
HopByHopNames ==
    {<<"c", "onnection">>, <<"k", "eep-alive">>, <<"t", "ransfer-encoding">>,
     <<"u", "pgrade">>}

\* C11: of the headers of an upstream response, those whose name is, in any
\* spelling of upper and lower case, connection, keep-alive, transfer-encoding
\* or upgrade are not set on the client response, and every other one is set
\* with its name and value unchanged.
C11_HopByHopStripped ==
    (upstream # <<>> /\ upstream[1].ok) =>
        /\ Len(res) = 1
        /\ res[1].headers \subseteq upstream[1].response.headers
        /\ \A h \in upstream[1].response.headers :
               (h \in res[1].headers) <=> (toLowerCase(h[1]) \notin HopByHopNames)

C11_Witness ==
    /\ upstream # <<>>
    /\ upstream[1].ok
    /\ <<<<"U", "PGRADE">>, "h2c">> \in upstream[1].response.headers
    /\ Len(res) = 1
    /\ res[1].headers =
           {<<<<"u", "pgrade", "-insecure-requests">>, "1">>,
            <<<<"c", "ontent-type">>, "application/json">>,
            <<<<"x-custom-header">>, "custom-value">>}

\* A string of decimal digits and the number it writes.
IsDigits(h) == h # <<>> /\ \A i \in 1..Len(h) : IsDigit(h[i])
RECURSIVE DecimalValue(_)
DecimalValue(h) ==
    IF h = <<>> THEN 0 ELSE DecimalValue(SubSeq(h, 1, Len(h) - 1)) * 10 + DigitVal(h[Len(h)])

\* C12: a receive-window header that writes a non-negative integer n, 0
\* included, resolves to n; every other value (absent, empty, not a number,
\* negative) resolves to 5000. (Violated: '0' resolves to 5000, and a negative
\* number or a number followed by other characters is used as parsed.)
C12_RecvWindowResolution ==
    (call.fn = "resolveRecvWindow" /\ call.result # <<>>) =>
        call.result[1] =
            IF IsDigits(call.args[1]) THEN DecimalValue(call.args[1]) ELSE 5000

EndsWith(s, suffix) ==
    /\ Len(s) >= Len(suffix)
    /\ SubSeq(s, Len(s) - Len(suffix) + 1, Len(s)) = suffix

\* The timestamp segment of a signed message is t: the message ends with
\* '|' t '|' and the receive window.
SignedAt(locals, t) ==
    EndsWith(locals.message, <<"|">> \o t \o <<"|">> \o IntToString(locals.recvWindow))

\* C13: the timestamp is the reading of the proxy's clock when the request
\* is signed, whatever the client sends: at one clock value every method,
\* query, body and set of headers (a client's own X-ASTRABIT-TIMESTAMP
\* included) gives the same timestamp in the signed message, and the outbound
\* timestamp header carries that timestamp.
C13_TimestampFromProxyClock ==
    /\ pc = "awaitGetUserId" =>
           /\ proxyCalls[1].timestamp = IntToString(now)
           /\ SignedAt(proxyCalls[1], IntToString(now))
           /\ \A method \in Methods, headers \in InboundHeaders,
                 query \in Queries, body \in Bodies :
                   LET other == proxyRequestLocals(method, proxyCalls[1].path, headers,
                                                   query, body, now)
                   IN  /\ other.timestamp = proxyCalls[1].timestamp
                       /\ SignedAt(other, proxyCalls[1].timestamp)
    /\ \A i \in 1..Len(proxyCalls) :
           SignedAt(proxyCalls[i], proxyCalls[i].timestamp)
    /\ \A i \in 1..Len(upstreamCalls) :
           upstreamCalls[i].headers[TIMESTAMP_HEADER] = proxyCalls[i].timestamp

C13_Witness ==
    /\ Len(upstreamCalls) = 1
    /\ "x-astrabit-timestamp" \in DOMAIN proxyCalls[1].headers
    /\ proxyCalls[1].headers["x-astrabit-timestamp"] = <<"9", "9">>
    /\ upstreamCalls[1].headers[TIMESTAMP_HEADER] = <<"1">>
    /\ SignedAt(proxyCalls[1], <<"1">>)

\* The signature the engine gives for a tuple of the seven inputs.
SigOf(a) == signatureOf(a[1], a[2], a[3], a[4], a[5], a[6], a[7])
\* The positions at which two tuples differ.
DiffersAt(a, b) == {i \in 1..7 : a[i] # b[i]}
Signed == call.fn = "signatureOf" /\ call.result # <<>>

\* C14 as stated: equal inputs give equal signatures, and two tuples that
\* differ in exactly one of method, path, query, body, timestamp, recvWindow
\* and secret give different signatures. (Violated: a body of null and a body
\* of {} sign alike, and so do two queries with the same unescaped text.)
C14_AnyFieldChangesSignature ==
    Signed =>
        \A other \in SigInputs :
            /\ other = call.args => SigOf(other) = call.result[1]
            /\ Cardinality(DiffersAt(other, call.args)) = 1 =>
                   SigOf(other) # call.result[1]

\* C14 amended: equal inputs give equal signatures; a change of the method,
\* the path, the timestamp, the receive window or the secret alone changes
\* the signature; a change of the query alone changes it exactly when the
\* serialised query string changes, and a change of the body alone exactly
\* when the body string changes (every body without keys signs as '').
C14_SignatureOfCanonicalMessage ==
    Signed =>
        \A other \in SigInputs :
            /\ other = call.args => SigOf(other) = call.result[1]
            /\ (DiffersAt(other, call.args) \subseteq {1, 2, 5, 6, 7}
                    /\ Cardinality(DiffersAt(other, call.args)) = 1) =>
                   SigOf(other) # call.result[1]
            /\ DiffersAt(other, call.args) = {3} =>
                   ((SigOf(other) # call.result[1])
                        <=> (qsStringify(other[3]) # qsStringify(call.args[3])))
            /\ DiffersAt(other, call.args) = {4} =>
                   ((SigOf(other) # call.result[1])
                        <=> (bodyStringOf(other[4]) # bodyStringOf(call.args[4])))

C14_Witness ==
    /\ Signed
    /\ call.args = <<"POST", <<"/", "v", "1", "/", "a">>,
                     << << <<"a">>, <<"1", "&", "b", "=", "2">> >> >>,
                     BodyObject(<< <<"name", "X">> >>), <<"1">>, 10, astrabitApiSecret>>
    /\ call.result[1].key = astrabitApiSecret
    /\ call.result[1].message =
           <<"POST", "|", "%2F", "v", "1", "%2F", "a", "%3F", "a", "%3D", "1", "%26",
             "b", "%3D", "2", "|", "{", "\"", "name", "\"", ":", "\"", "X", "\"", "}",
             "|", "1", "|", "1", "0">>

\* C15: whatever API_SUPPORTED_VERSIONS and API_DEFAULT_VERSION are set to,
\* the configuration the service starts with has its defaultVersion among
\* its supportedVersions. (Violated: the fallback 'v1' is used even when 'v1'
\* is not a supported version.)
C15_DefaultVersionSupported ==
    \E i \in 1..Len(versioning.supportedVersions) :
        versioning.supportedVersions[i] = versioning.defaultVersion

\* Base64 read back: four symbols to three bytes, '=' marking padding.
Sextet(c) == IF c = "=" THEN 0 ELSE (CHOOSE i \in 1..64 : Base64Alphabet[i] = c) - 1
RECURSIVE Base64Decode(_)
Base64Decode(text) ==
    IF Len(text) < 4
    THEN <<>>
    ELSE LET n == Sextet(text[1]) * 262144 + Sextet(text[2]) * 4096
                  + Sextet(text[3]) * 64 + Sextet(text[4])
             pad == Cardinality({k \in 3..4 : text[k] = "="})
         IN  SubSeq(<<n \div 65536, (n \div 256) % 256, n % 256>>, 1, 3 - pad)
             \o Base64Decode(SubSeq(text, 5, Len(text)))

\* C16: every dispatched request carries the identity header; its value is
\* the empty string when the Identity Delegate returned the empty identity,
\* and otherwise the base64 text of the identity's bytes: four symbols for
\* every three bytes, which read back give those bytes.
C16_IdentityHeader ==
    /\ IdentityOk => Len(upstreamCalls) = 1
    /\ \A i \in 1..Len(upstreamCalls) :
           LET id == identity[i].userId
               headers == upstreamCalls[i].headers
           IN  /\ identity[i].ok
               /\ TOKEN_USER_HEADER \in DOMAIN headers
               /\ id = <<>> => headers[TOKEN_USER_HEADER] = <<>>
               /\ id # <<>> =>
                      /\ Len(headers[TOKEN_USER_HEADER]) = 4 * ((Len(id) + 2) \div 3)
                      /\ Base64Decode(headers[TOKEN_USER_HEADER]) = utf8Bytes(id)

C16_Witness ==
    /\ Len(upstreamCalls) = 1
    /\ identity[1].ok
    /\ identity[1].userId = <<"u", "s", "e", "r", "1", "2", "3">>
    /\ upstreamCalls[1].headers[TOKEN_USER_HEADER] =
           <<"d", "X", "N", "l", "c", "j", "E", "y", "M", "w", "=", "=">>

\* The paths left to the health and documentation endpoints: the root, the
\* heartbeat, and everything that begins with /health-check, /api-json,
\* /api-yaml or /_swagger.
ExcludedPath(p) ==
    \/ p = <<"/">>
    \/ p = <<"/", "heartbeat">>
    \/ /\ Len(p) >= 2
       /\ p[1] = "/"
       /\ p[2] \in {"health-check", "api-json", "api-yaml", "_swagger"}

\* C17: a request on an excluded path, whatever its method, is answered
\* without a 400 version error and without proxyRequest, the Identity Delegate
\* or the upstream being invoked; a request on any other path goes through
\* version resolution: it is answered with a 400 version error or handed to
\* proxyRequest.
C17_ExcludedPaths ==
    Received =>
        IF ExcludedPath(req.path)
        THEN /\ pc = "done"
             /\ Len(res) = 1
             /\ res[1].status = 200
             /\ "supportedVersions" \notin DOMAIN res[1].body
             /\ proxyCalls = <<>>
             /\ authCalls = 0
             /\ upstreamCalls = <<>>
        ELSE IF HasVersionToken(req.path) /\ Supported(TokenOf(req.path))
        THEN Len(proxyCalls) = 1 /\ authCalls = 1
        ELSE /\ pc = "done"
             /\ Len(res) = 1
             /\ res[1].status = 400
             /\ "supportedVersions" \in DOMAIN res[1].body
             /\ proxyCalls = <<>>

C17_Witness ==
    /\ pc = "done"
    /\ req = [method |-> "POST", path |-> <<"/", "health-check", "/", "v">>]
    /\ Len(res) = 1
    /\ res[1].status = 200
    /\ proxyCalls = <<>>

\* C18: handling is suspended only at the outbound upstream call, whose wait
\* the 30-second timeout bounds, so every request that has been received is
\* eventually answered, whatever the Identity Delegate and the upstream do.
\* (Violated: the handler also awaits getUserId, with no timeout; a delegate
\* that never settles leaves the request unanswered for ever.)
C18_EventuallyAnswered == Received ~> (pc = "done")

\* What invocation r sends upstream and answers when it is handled alone:
\* the outcome of its own input, its own clock reading, and what the
\* Identity Delegate and the upstream returned to it.
AsAlone(r) ==
    LET f == handlers[r]
        entry == versionResolution(f.input.path)
        locals == proxyRequestLocals(f.input.method, entry.targetPath, f.input.headers,
                                     f.input.query, f.input.body, f.clock)
    IN  /\ f.pc = "idle" => (f.locals = <<>> /\ f.config = <<>> /\ f.response = <<>>)
        /\ (f.pc # "idle" /\ entry.response # <<>>) =>
               (f.pc = "done" /\ f.response = entry.response /\ f.config = <<>>)
        /\ (f.pc # "idle" /\ entry.response = <<>>) =>
               /\ f.locals = <<locals>>
               /\ f.config # <<>> =>
                      (f.identity[1].ok
                          /\ f.config = <<requestConfigOf(locals, f.identity[1].userId)>>)
               /\ f.response # <<>> =>
                      /\ f.pc = "done"
                      /\ f.response[1] =
                             IF ~f.identity[1].ok THEN ErrorResponse(f.identity[1].error)
                             ELSE IF f.upstream[1].ok
                             THEN RelayResponse(f.upstream[1].response)
                             ELSE ErrorResponse(f.upstream[1].error)

\* Invocation r can take its next step whatever the others are doing.
NotBlocked(r) ==
    /\ handlers[r].pc = "idle" =>
           ENABLED (\E input \in ConcInputs, clock \in 0..MaxClock :
                        ConcReceive(r, input, clock))
    /\ handlers[r].pc = "awaitGetUserId" =>
           /\ ENABLED (\E externalUserId \in ConcIdentities :
                           ConcAuthResolve(r, externalUserId))
           /\ ENABLED (\E error \in ConcAuthErrors : ConcAuthReject(r, error))
    /\ handlers[r].pc = "awaitAxios" =>
           /\ ENABLED (\E response \in ConcResponses : ConcUpstreamRespond(r, response))
           /\ ENABLED (\E error \in ConcTransportErrors : ConcUpstreamFail(r, error))

C20_OutboundHeaders ==
    \A i \in 1..Len(upstreamCalls) :
        LET out == upstreamCalls[i].headers
            inbound == proxyCalls[i].headers
            id == identity[i].userId
        IN  /\ DOMAIN out =
                   {"X-ASTRABIT-API-KEY", "X-ASTRABIT-SIGNATURE", "X-ASTRABIT-TIMESTAMP",
                    "X-ASTRABIT-RECV-WINDOW", "X-ASTRABIT-USER-ID", "Content-Type"}
            /\ out["X-ASTRABIT-API-KEY"] = <<astrabitApiKey>>
            /\ out["X-ASTRABIT-SIGNATURE"] = proxyCalls[i].signature
            /\ out["X-ASTRABIT-SIGNATURE"].key = astrabitApiSecret
            /\ out["X-ASTRABIT-SIGNATURE"].message = proxyCalls[i].message
            /\ out["X-ASTRABIT-TIMESTAMP"] = proxyCalls[i].timestamp
            /\ IsDigits(out["X-ASTRABIT-RECV-WINDOW"])
            /\ DecimalValue(out["X-ASTRABIT-RECV-WINDOW"]) = proxyCalls[i].recvWindow
            /\ EndsWith(proxyCalls[i].message, <<"|">> \o out["X-ASTRABIT-RECV-WINDOW"])
            /\ out["X-ASTRABIT-USER-ID"] = IF id = <<>> THEN <<>> ELSE base64(id)
            /\ out["Content-Type"] =
                   IF "content-type" \in DOMAIN inbound
                   THEN inbound["content-type"]
                   ELSE <<"application/json">>
            /\ "x-astrabit-api-key" \in DOMAIN inbound =>
                   out["X-ASTRABIT-API-KEY"] # inbound["x-astrabit-api-key"]
            /\ "x-astrabit-timestamp" \in DOMAIN inbound =>
                   out["X-ASTRABIT-TIMESTAMP"] # inbound["x-astrabit-timestamp"]
            /\ "x-astrabit-user-id" \in DOMAIN inbound =>
                   out["X-ASTRABIT-USER-ID"] # inbound["x-astrabit-user-id"]

C20_Witness ==
    /\ Len(upstreamCalls) = 1
    /\ DOMAIN proxyCalls[1].headers =
           {"content-type", "x-astrabit-api-key", "x-astrabit-signature",
            "x-astrabit-timestamp", "x-astrabit-user-id", "authorization"}
    /\ Cardinality(DOMAIN upstreamCalls[1].headers) = 6
    /\ upstreamCalls[1].headers["Content-Type"] = <<"application/xml">>
    /\ upstreamCalls[1].headers["X-ASTRABIT-RECV-WINDOW"] = <<"5", "0", "0", "0">>
    /\ upstreamCalls[1].headers["X-ASTRABIT-API-KEY"] = <<"test-api-key">>

\* The segments of a text between its '|' separators, in order.
RECURSIVE SplitAtBar(_)
SplitAtBar(text) ==
    IF \A i \in 1..Len(text) : text[i] # "|"
    THEN <<text>>
    ELSE LET k == CHOOSE i \in 1..Len(text) :
                      text[i] = "|" /\ \A j \in (i + 1)..Len(text) : text[j] # "|"
         IN  Append(SplitAtBar(SubSeq(text, 1, k - 1)), SubSeq(text, k + 1, Len(text)))

\* C21: for every dispatched request, the last two segments of the signed
\* message, its timestamp and its receive window, are the values of the
\* outbound timestamp header and receive-window header of that request.
C21_SignedEqualsSent ==
    \A i \in 1..Len(upstreamCalls) :
        LET segments == SplitAtBar(upstreamCalls[i].headers[SIGNATURE_HEADER].message)
            n == Len(segments)
        IN  /\ n >= 5
            /\ segments[n - 1] = upstreamCalls[i].headers[TIMESTAMP_HEADER]
            /\ segments[n] = upstreamCalls[i].headers[RECV_WINDOW_HEADER]

C21_Witness ==
    /\ Len(upstreamCalls) = 1
    /\ headerOf(proxyCalls[1].headers, "x-astrabit-recv-window") = <<"1", "0">>
    /\ upstreamCalls[1].headers[RECV_WINDOW_HEADER] = <<"1", "0">>
    /\ upstreamCalls[1].headers[TIMESTAMP_HEADER] = <<"1">>
    /\ SplitAtBar(upstreamCalls[1].headers[SIGNATURE_HEADER].message) =
           <<<<"GET">>, <<"%2F", "v", "1">>, <<>>, <<"1">>, <<"1", "0">>>>

\* A percent-encoded text read back.
DecodeChar(c) ==
    CASE c = "%2F" -> "/"
      [] c = "%3F" -> "?"
      [] c = "%3D" -> "="
      [] c = "%26" -> "&"
      [] c = "%7C" -> "|"
      [] c = "%20" -> " "
      [] OTHER -> c
PercentDecode(s) == [i \in 1..Len(s) |-> DecodeChar(s[i])]

\* The query parameters as name=value joined by '&', in their order.
RECURSIVE QueryText(_)
QueryText(query) ==
    IF query = <<>>
    THEN <<>>
    ELSE LET last == query[Len(query)]
             before == QueryText(SubSeq(query, 1, Len(query) - 1))
         IN  (IF before = <<>> THEN <<>> ELSE before \o <<"&">>)
             \o last[1] \o <<"=">> \o last[2]

\* C22: for every dispatched request, the URL sent upstream is the upstream
\* base URL followed by the original URL: the path with the gateway version
\* in place of the requested one, then '?' and the query string when there
\* is a query. The URL segment of the signed message is the percent-encoding
\* of that same original URL, so the path and query signed are the path and
\* query dispatched, also when the version is rewritten.
C22_SignedUrlIsDispatchedUrl ==
    \A i \in 1..Len(upstreamCalls) :
        LET url == upstreamCalls[i].url
            original == Tail(url)
            v == TokenOf(req.path)
            g == IF v \in DOMAIN versioning.gatewayVersionMap
                 THEN versioning.gatewayVersionMap[v]
                 ELSE versioning.defaultVersion
            query == proxyCalls[i].query
            signedUrl == SplitAtBar(upstreamCalls[i].headers[SIGNATURE_HEADER].message)[2]
        IN  /\ url[1] = copyGatewayUrl
            /\ original =
                   <<"/">> \o g \o RemainderOf(req.path)
                       \o (IF query = <<>> THEN <<>> ELSE <<"?">> \o QueryText(query))
            /\ signedUrl = encodeURIComponent(original)
            /\ PercentDecode(signedUrl) = original
            /\ \A k \in 1..Len(signedUrl) : signedUrl[k] \notin {"/", "?", "=", "&", "|"}

C22_Witness ==
    /\ Len(upstreamCalls) = 1
    /\ req.path = <<"/", "v", "1", "/">>
    /\ upstreamCalls[1].url =
           <<"http://localhost:3360", "/", "v", "2", "/", "?", "limit", "=", "1", "0">>
    /\ SplitAtBar(upstreamCalls[1].headers[SIGNATURE_HEADER].message)[2] =
           <<"%2F", "v", "2", "%2F", "%3F", "limit", "%3D", "1", "0">>

\* The verb written in upper case.
UpperCaseVerb(method) ==
    CASE method = "get" -> "GET"
      [] method = "post" -> "POST"
      [] OTHER -> method

\* The members of an object written as "key":"value" joined by ','.
RECURSIVE MembersText(_)
MembersText(entries) ==
    IF entries = <<>>
    THEN <<>>
    ELSE LET last == entries[Len(entries)]
             before == MembersText(SubSeq(entries, 1, Len(entries) - 1))
         IN  (IF before = <<>> THEN <<>> ELSE before \o <<",">>)
             \o <<"\"", last[1], "\"", ":", "\"", last[2], "\"">>

\* The body segment a body is expected to give.
BodyText(body) ==
    IF body.kind \in {"undefined", "null"} \/ body.entries = <<>>
    THEN <<>>
    ELSE <<"{">> \o MembersText(body.entries) \o <<"}">>

\* The message is the five fields of the call, in order, between '|'.
FiveFields(message, method, args) ==
    LET segments == SplitAtBar(message)
    IN  /\ Len(segments) = 5
        /\ segments[1] = <<method>>
        /\ PercentDecode(segments[2]) =
               args[2] \o (IF args[3] = <<>> THEN <<>> ELSE <<"?">> \o QueryText(args[3]))
        /\ segments[2] = encodeURIComponent(PercentDecode(segments[2]))
        /\ segments[3] = BodyText(args[4])
        /\ segments[4] = args[5]
        /\ segments[5] = IntToString(args[6])

C24_BodySegment ==
    Signed =>
        LET segment == SplitAtBar(call.result[1].message)[3]
            body == call.args[4]
        IN  /\ (segment = <<>>) <=> (body.kind = "null" \/ Len(body.entries) = 0)
            /\ segment = BodyText(body)
            /\ segment # <<>> =>
                   /\ Len(segment) = 8 * Len(body.entries) + 1
                   /\ \A k \in 1..Len(body.entries) :
                          /\ segment[8 * k - 5] = body.entries[k][1]
                          /\ segment[8 * k - 1] = body.entries[k][2]

C24_Witness ==
    /\ Signed
    /\ call.args[4] = BodyObject(<< <<"mode", "Y">>, <<"name", "X">> >>)
    /\ SplitAtBar(call.result[1].message)[3] =
           <<"{", "\"", "mode", "\"", ":", "\"", "Y", "\"", ",",
             "\"", "name", "\"", ":", "\"", "X", "\"", "}">>

\* C25: the maximum receive window of 3,600,000 ms is not enforced: a
\* request whose receive-window header writes an integer n above it is
\* neither rejected nor clamped; n is the receive window of the signed
\* message and of the outbound header.
C25_MaxRecvWindowNotEnforced ==
    \A i \in 1..Len(proxyCalls) :
        LET h == headerOf(proxyCalls[i].headers, "x-astrabit-recv-window")
            segments == SplitAtBar(proxyCalls[i].message)
        IN  (IsDigits(h) /\ DecimalValue(h) > RECV_WINDOW_MAX_SIZE) =>
                /\ proxyCalls[i].recvWindow = DecimalValue(h)
                /\ segments[Len(segments)] = h
                /\ res # <<>> => (IdentityFailed \/ upstream # <<>>)
                /\ IdentityOk =>
                       /\ Len(upstreamCalls) = 1
                       /\ upstreamCalls[i].headers[RECV_WINDOW_HEADER] = h
                       /\ LET sent == SplitAtBar(
                                  upstreamCalls[i].headers[SIGNATURE_HEADER].message)
                          IN  sent[Len(sent)] = h

C25_Witness ==
    /\ Len(upstreamCalls) = 1
    /\ headerOf(proxyCalls[1].headers, "x-astrabit-recv-window") =
           <<"3", "6", "0", "0", "0", "0", "1">>
    /\ proxyCalls[1].recvWindow = 3600001
    /\ proxyCalls[1].recvWindow > RECV_WINDOW_MAX_SIZE
    /\ upstreamCalls[1].headers[RECV_WINDOW_HEADER] = <<"3", "6", "0", "0", "0", "0", "1">>
    /\ upstream # <<>>
    /\ upstream[1].ok

\* The entries of a parsed map that are well formed for version v: a string
\* target, and key and target, in lower case, both 'v' and digits.
WellFormedFor(entries, v) ==
    {i \in 1..Len(entries) :
        /\ entries[i][2].type = "string"
        /\ IsVersionToken(toLowerCase(entries[i][1]))
        /\ IsVersionToken(toLowerCase(entries[i][2].text))
        /\ toLowerCase(entries[i][1]) = v}
LastOf(S) == CHOOSE i \in S : \A j \in S : j <= i

\* C26: for every value of API_GATEWAY_VERSION_MAP the loaded map has an
\* entry for every supported version: the target of the well-formed entry
\* for that version when the JSON holds one, and the version itself
\* otherwise (unset, malformed, no such entry). (Violated: one value that is
\* not a string makes the loader drop every entry of the JSON, the well-
\* formed ones included.)
C26_GatewayMapCoversSupported ==
    (call.fn = "apiVersioning" /\ call.result # <<>>) =>
        LET value == call.args[1].API_GATEWAY_VERSION_MAP
            loaded == call.result[1]
        IN  \A v \in SeqRange(loaded.supportedVersions) :
                /\ v \in DOMAIN loaded.gatewayVersionMap
                /\ loaded.gatewayVersionMap[v] =
                       IF value.kind = "json" /\ WellFormedFor(value.entries, v) # {}
                       THEN toLowerCase(
                                value.entries[LastOf(WellFormedFor(value.entries, v))][2].text)
                       ELSE v

\* The request has been answered: RESPONDED or ERRORED.
Answered == res # <<>>

\* C27: every path through the controller sends exactly one response: none
\* sends two, the handler has completed exactly when one response has been
\* sent, and once the request is answered no further step occurs for it: no
\* call of proxyRequest, of the Identity Delegate or of the upstream, and no
\* second response.
C27_ExactlyOneResponse ==
    /\ [](/\ Len(res) <= 1
          /\ (pc = "done") <=> (Len(res) = 1)
          /\ pc = "idle" => ~Received)
    /\ [][Answered =>
              /\ res' = res
              /\ proxyCalls' = proxyCalls
              /\ authCalls' = authCalls
              /\ upstreamCalls' = upstreamCalls
              /\ upstream' = upstream]_vars

C27_Witness ==
    /\ pc = "done"
    /\ Len(res) = 1
    /\ IdentityFailed
    /\ identity[1].error.response.present
    /\ res[1].status = 401
    /\ authCalls = 1
    /\ upstreamCalls = <<>>

\* C28: the timestamp is read once, when proxyRequest starts and before the
\* Identity Delegate is invoked, and is never read again: the signed message
\* and the timestamp header of a dispatched request carry the clock reading
\* of the instant getUserId was called, so the time at which the upstream
\* call is issued, less the signed timestamp, is the time the delegate took.
C28_TimestampNeverRefreshed ==
    /\ [](\A i \in 1..Len(upstreamCalls) :
             LET signedAt == DecimalValue(proxyCalls[i].timestamp)
                 issuedAt == identity[i].at
             IN  /\ upstreamCalls[i].headers[TIMESTAMP_HEADER] = proxyCalls[i].timestamp
                 /\ SignedAt(proxyCalls[i], upstreamCalls[i].headers[TIMESTAMP_HEADER])
                 /\ upstreamCalls[i].headers[SIGNATURE_HEADER].message = proxyCalls[i].message
                 /\ signedAt <= issuedAt
                 /\ issuedAt <= now)
    /\ [][authCalls' # authCalls =>
              /\ authCalls' = authCalls + 1
              /\ Len(proxyCalls') = authCalls'
              /\ proxyCalls'[authCalls'].timestamp = IntToString(now')
              /\ identity' = identity]_vars
    /\ [][upstreamCalls' # upstreamCalls =>
              /\ Len(upstreamCalls') = Len(upstreamCalls) + 1
              /\ Len(identity') = Len(upstreamCalls')
              /\ identity'[Len(identity')].at = now']_vars
    /\ [][proxyCalls # <<>> => proxyCalls' = proxyCalls]_vars

\* A delegate slower than the receive window: the request is dispatched
\* outside its window.
C28_Witness ==
    /\ Len(upstreamCalls) = 1
    /\ proxyCalls[1].recvWindow = 10
    /\ upstreamCalls[1].headers[TIMESTAMP_HEADER] = <<"0">>
    /\ identity[1].at = 11
    /\ identity[1].at - DecimalValue(upstreamCalls[1].headers[TIMESTAMP_HEADER])
           > proxyCalls[1].recvWindow

\* C29: the data handed to the HTTP client is the body the body segment was
\* computed from, an absent body having been replaced by {}. For a body
\* without keys the two differ in content: the segment signed is the empty
\* string while the data dispatched is the object {}, whose JSON text is {}.
\* For every other body the segment signed is the JSON text of the data
\* dispatched.
C29_SignedBodyAndDispatchedData ==
    /\ pc = "awaitGetUserId" =>
           \A headers \in InboundHeaders, query \in Queries :
               LET absent == proxyRequestLocals(req.method, proxyCalls[1].path, headers,
                                                query, BodyUndefined, now)
                   empty == proxyRequestLocals(req.method, proxyCalls[1].path, headers,
                                               query, BodyObject(<<>>), now)
               IN  /\ absent.body = BodyObject(<<>>)
                   /\ absent.bodyString = <<>>
                   /\ absent.message = empty.message
                   /\ requestConfigOf(absent, <<>>).data = BodyObject(<<>>)
    /\ \A i \in 1..Len(upstreamCalls) :
           LET data == upstreamCalls[i].data
               segment == SplitAtBar(upstreamCalls[i].headers[SIGNATURE_HEADER].message)[3]
           IN  /\ data = proxyCalls[i].body
               /\ data.kind = "object"
               /\ segment = proxyCalls[i].bodyString
               /\ Len(data.entries) = 0 =>
                      /\ segment = <<>>
                      /\ data = BodyObject(<<>>)
                      /\ segment # <<"{", "}">>
               /\ Len(data.entries) > 0 =>
                      segment = <<"{">> \o MembersText(data.entries) \o <<"}">>

C29_Witness ==
    /\ Len(upstreamCalls) = 1
    /\ upstreamCalls[1].data = BodyObject(<<>>)
    /\ upstreamCalls[1].data # BodyNull
    /\ SplitAtBar(upstreamCalls[1].headers[SIGNATURE_HEADER].message)[3] = <<>>
    /\ proxyCalls[1].bodyString = <<>>

\* The error the controller's catch block received, if it received one.
CaughtError ==
    IF IdentityFailed THEN <<identity[1].error>>
    ELSE IF upstream # <<>> /\ ~upstream[1].ok THEN <<upstream[1].error>>
    ELSE <<>>

\* C30 as stated: a caught error with a response is answered with the
\* response's status, 500 when the status is absent, and the response's
\* data, {message: error.message} when the data is absent; an error without
\* a response is answered 500 with the generic message. (Violated: data that
\* is present but falsy, such as the '' of an empty body, is replaced by
\* {message: error.message} as well.)
C30_AbsentFieldsDefaulted ==
    CaughtError # <<>> =>
        LET error == CaughtError[1]
        IN  /\ Len(res) = 1
            /\ IF error.response.present
               THEN /\ res[1].status =
                           IF error.response.status = 0 THEN 500 ELSE error.response.status
                    /\ res[1].body =
                           IF error.response.data = Undefined
                           THEN [message |-> error.message]
                           ELSE error.response.data
               ELSE /\ res[1].status = 500
                    /\ res[1].body = GenericErrorBody

\* C30 amended: a caught error with a response is answered with the
\* response's status when that is truthy and 500 otherwise, and with the
\* response's data when that is truthy and {message: error.message}
\* otherwise; an error without a response is answered 500 with the generic
\* message. So a delegate failure raised as a framework exception, whose
\* response has neither status nor data, is answered 500 with the
\* exception's own message.
C30_ClassifiedByResponse ==
    CaughtError # <<>> =>
        LET error == CaughtError[1]
        IN  /\ Len(res) = 1
            /\ IF error.response.present
               THEN /\ res[1].status =
                           IF error.response.status = 0 THEN 500 ELSE error.response.status
                    /\ res[1].body =
                           IF error.response.data \in {Undefined, EmptyString}
                           THEN [message |-> error.message]
                           ELSE error.response.data
                    /\ (error.response.status = 0 /\ error.response.data = Undefined) =>
                           /\ res[1].status = 500
                           /\ res[1].body # GenericErrorBody
               ELSE /\ res[1].status = 500
                    /\ res[1].body = GenericErrorBody

C30_Witness ==
    /\ IdentityFailed
    /\ identity[1].error =
           ErrorOf(<<"Invalid token">>, [present |-> TRUE, status |-> 0, data |-> Undefined])
    /\ Len(res) = 1
    /\ res[1] = [status |-> 500, body |-> [message |-> <<"Invalid token">>], headers |-> {}]

====
